---- MODULE Spec2Model ----
(***************************************************************************)
(* Model of the Christmas menu planner: the orchestrator pipelines         *)
(* (src/agents/orchestrator.py), the info checker's extraction result      *)
(* (src/agents/info_checker.py), the preference extraction of the menu     *)
(* creator and of the recipe agents (src/agents/menu_creator.py,           *)
(* src/agents/recipe_agents.py), the category search tools                 *)
(* (src/tools/recipe_search.py) and the recipe store                       *)
(* (src/database/vector_store.py, src/database/recipe_loader.py).          *)
(*                                                                         *)
(* The LLM, the embedder and the vector database are external: the text an *)
(* agent run answers, the tool calls it makes and the outcome of a vector  *)
(* database call are inputs drawn from small sets.                         *)
(***************************************************************************)
EXTENDS Integers, Sequences, FiniteSets, TLC

VARIABLES
    \* ---- orchestrator pipelines ----
    mode,               \* entry point running: run, run_streaming, run_with_native_agents
    interactive,        \* run's interactive argument
    pc,                 \* position of the pipeline
    holder,             \* InfoCheckerAgent._extraction_result_holder["result"]
    memory_turns,       \* number of turns in InfoCheckerAgent._conversation_memory
    preferences_result, \* what extract_preferences returned
    preferences,        \* the pipeline's local variable preferences
    result,             \* the dictionary run builds and returns
    recipe_results,     \* the search results of the pipeline, by category
    final_menu,         \* run_streaming's local variable final_menu
    events,             \* the events run_streaming has yielded
    calls,              \* the agent calls made by this pipeline, in order
    tool_calls,         \* finalize_extraction calls made by this agent run
    steps,              \* steps yielded by the menu creator's streaming call
    menu_llm_runs,      \* LLM runs of the menu creator in this pipeline
    exc,                \* the exception the pipeline raised, if any
    runs,               \* pipelines started so far
    \* ---- preference extraction as a pure function ----
    px_in,              \* the preferences dictionary given
    px_menu,            \* MenuCreatorAgent._extract_preferences of it
    px_recipe,          \* BaseRecipeAgent._extract_preferences of it
    px_pc,
    px_create,          \* outcome of create_menu / create_menu_with_agents on px_in
    px_search,          \* outcome of a recipe agent's search on px_in
    \* ---- format_final_menu as a pure function ----
    fm_args,            \* the arguments of the call
    fm_ret,             \* what the call returned or raised
    \* ---- ChristmasMenuOrchestrator.__init__ ----
    ct_pc,              \* position of the constructor
    ct_setting,         \* settings.LLM_PROVIDER of the process
    ct_args,            \* provider and initialize_db of the call
    ct_created,         \* attributes the constructor has set, in order
    ct_connected,       \* agents handed to menu_creator.connect_recipe_agents
    ct_exc,             \* exception the constructor raised
    \* ---- recipe store, search tools, reload ----
    store,              \* chunks of the collection
    st_pc,              \* position of the store operation
    st_calls,           \* calls on the store and the loader, in order
    st_ret,             \* value returned by the last operation
    st_req,             \* the operation in progress and its arguments
    \* ---- run_async after run ----
    as_prev             \* the finished run(interactive=False) that run_async repeats

orchVars == <<mode, interactive, pc, holder, memory_turns, preferences_result,
              preferences, result, recipe_results, final_menu, events, calls,
              tool_calls, steps, menu_llm_runs, exc, runs>>
pxVars == <<px_in, px_menu, px_recipe, px_pc, px_create, px_search>>
storeVars == <<store, st_pc, st_calls, st_ret, st_req>>
fmVars == <<fm_args, fm_ret>>
ctVars == <<ct_pc, ct_setting, ct_args, ct_created, ct_connected, ct_exc>>
asVars == <<as_prev>>
vars == <<orchVars, pxVars, storeVars, fmVars, ctVars, asVars>>

(***************************************************************************)
(* Bounds of the model                                                     *)
(***************************************************************************)
MaxRuns == 2            \* pipelines started in one behaviour
MaxFinalizeCalls == 2   \* finalize_extraction calls in one agent run
MaxSteps == 2           \* steps yielded by one streaming menu creation
MaxAllergies == 2       \* length of an allergies / custom_allergies list
MaxFlags == 2           \* dietary flags one tool call sets
MaxResults == 2         \* n_results of one tool call
MaxPrepTime == 15       \* max_prep_time of one tool call, in minutes
MaxExtracted == 2       \* recipes extract_recipes returns for one PDF

(***************************************************************************)
(* Python values: every value carries its type in the field t.             *)
(* A str is a sequence of atoms; + on str and on list is concatenation.    *)
(***************************************************************************)
None == [t |-> "None"]
PyInt(n) == [t |-> "int", v |-> n]
PyBool(b) == [t |-> "bool", v |-> b]
PyStr(s) == [t |-> "str", v |-> s]
PyList(s) == [t |-> "list", v |-> s]
PyDict(f) == [t |-> "dict", v |-> f]
Raise(e) == [t |-> "raise", v |-> e]

EmptyDict == PyDict(<<>>)

\* bool(x) of Python
Truthy(x) ==
    CASE x.t = "None" -> FALSE
      [] x.t = "bool" -> x.v
      [] x.t = "int" -> x.v # 0
      [] x.t = "str" -> Len(x.v) > 0
      [] x.t = "list" -> Len(x.v) > 0
      [] x.t = "dict" -> DOMAIN x.v # {}

\* d.get(key, default) of a dict d
DictGet(d, key, default) ==
    IF key \in DOMAIN d.v THEN d.v[key] ELSE default

\* sep.join(items) for a sequence of str values
Join(sep, items) ==
    LET RECURSIVE J(_)
        J(i) == IF i > Len(items) THEN <<>>
                ELSE IF i = Len(items) THEN items[i].v
                ELSE items[i].v \o <<sep>> \o J(i + 1)
    IN PyStr(J(1))

\* a + b of Python for the values met here
PyAdd(a, b) ==
    IF a.t = "str" /\ b.t = "str" THEN PyStr(a.v \o b.v)
    ELSE IF a.t = "list" /\ b.t = "list" THEN PyList(a.v \o b.v)
    ELSE IF a.t = "int" /\ b.t = "int" THEN PyInt(a.v + b.v)
    ELSE Raise("TypeError")

(***************************************************************************)
(* Texts an LLM run can answer                                             *)
(***************************************************************************)
Texts == {PyStr(<<"text_a">>), PyStr(<<"text_b">>)}
InfoTexts == {PyStr(<<"How many guests are you expecting?">>)}

\* run_streaming cuts a step's message at this many characters
MessageLimit == 100

\* get_provider_info()
ProviderInfo == PyStr(<<"provider", "model">>)

(***************************************************************************)
(* Preference dictionaries and tool arguments the LLM can produce          *)
(***************************************************************************)
PrefDicts ==
    { EmptyDict,
      PyDict("has_vegans" :> PyBool(TRUE)),
      PyDict("number_of_guests" :> None @@ "has_vegetarians" :> PyBool(TRUE)),
      PyDict("number_of_guests" :> PyInt(0)),
      PyDict("number_of_guests" :> PyInt(4) @@ "has_vegans" :> PyBool(TRUE)
             @@ "allergies" :> PyList(<<PyStr(<<"nuts">>)>>)
             @@ "custom_allergies" :> PyList(<<PyStr(<<"kiwi">>)>>)) }

\* preferences_json arguments: the empty string, text that is not JSON, the
\* object create_preferences_object answers ({"preferences": ..., "summary": ...})
\* and a bare preferences object
PreferencesJsonInputs ==
    {[k |-> "empty"], [k |-> "invalid"]}
    \cup {[k |-> "json", data |-> PyDict("preferences" :> p @@ "summary" :> PyStr(<<"summary">>))] :
             p \in PrefDicts \cup {None}}
    \cup {[k |-> "json", data |-> p] : p \in PrefDicts}

\* missing_info / questions arguments, already cut at the separator and stripped:
\* "" is a piece that is blank
ListArgInputs ==
    { [missing_info |-> <<>>, questions |-> <<>>],
      [missing_info |-> <<"number_of_guests">>, questions |-> <<>>],
      [missing_info |-> <<"number_of_guests", "", "allergies">>,
       questions |-> <<"How many guests?", "">>] }

(***************************************************************************)
(* InfoCheckerAgent                                                        *)
(***************************************************************************)
\* [m.strip() for m in s.split(sep) if m.strip()]
NonBlankPieces(pieces) == SelectSeq(pieces, LAMBDA m : m # "")

\* the preferences finalize_extraction stores
FinalizePreferences(preferences_json) ==
    IF preferences_json.k = "empty" THEN None
    ELSE IF preferences_json.k = "invalid" THEN None
    ELSE DictGet(preferences_json.data, "preferences", preferences_json.data)

\* finalize_extraction: the value it stores in result_holder["result"]
FinalizeExtraction(is_complete, preferences_json, missing_info, questions, summary) ==
    [is_complete |-> is_complete,
     preferences |-> FinalizePreferences(preferences_json),
     missing_info |-> NonBlankPieces(missing_info),
     questions |-> NonBlankPieces(questions),
     summary |-> summary]

KeptHolder(extraction_result) == extraction_result

\* _run_extraction clears the holder of the earlier extraction before the agent run
ClearedHolder(extraction_result) == None

\* the fallback of _run_extraction
FallbackExtraction ==
    [is_complete |-> FALSE, preferences |-> None, missing_info |-> <<>>,
     questions |-> <<>>, summary |-> PyStr(<<>>)]

\* what _run_extraction returns, given the holder after the agent run
RunExtractionResult(extraction_result, response_text) ==
    LET body == IF extraction_result # None THEN extraction_result
                ELSE FallbackExtraction
    IN [raw_response |-> response_text,
        is_complete |-> body.is_complete,
        preferences |-> body.preferences,
        missing_info |-> body.missing_info,
        questions |-> body.questions,
        summary |-> body.summary]

InSeq(x, s) == \E i \in 1..Len(s) : s[i] = x

\* ask_missing_info: the questions joined by newlines, or AttributeError when
\* current_preferences is None
AskMissingInfo(current_preferences, missing_fields) ==
    IF current_preferences.t # "dict" THEN Raise("AttributeError")
    ELSE
      LET q1 == IF InSeq("number_of_guests", missing_fields)
                THEN <<PyStr(<<"How many guests are you expecting for Christmas dinner?">>)>>
                ELSE <<>>
          q2 == IF ~Truthy(DictGet(current_preferences, "has_vegetarians", None))
                   /\ ~Truthy(DictGet(current_preferences, "has_vegans", None))
                THEN <<PyStr(<<"Are there any vegetarian or vegan guests?">>)>>
                ELSE <<>>
          q3 == IF ~Truthy(DictGet(current_preferences, "allergies", None))
                THEN <<PyStr(<<"Does anyone have food allergies I should be aware of?">>)>>
                ELSE <<>>
          questions == q1 \o q2 \o q3
      IN IF Len(questions) > 0 THEN Join("\n", questions)
         ELSE PyStr(<<"I have all the information I need!">>)

(***************************************************************************)
(* _extract_preferences of the menu creator and of the recipe agents       *)
(***************************************************************************)
\* the custom_allergies after the isinstance ladder both functions share
NormalizeCustomAllergies(allergies, custom_allergies) ==
    IF allergies.t = "str" THEN
        IF custom_allergies.t # "str" THEN
            IF custom_allergies.t = "list" THEN Join(", ", custom_allergies.v)
            ELSE PyStr(<<>>)
        ELSE custom_allergies
    ELSE IF allergies.t = "list" THEN
        IF custom_allergies.t # "list" THEN
            IF custom_allergies.t = "str" THEN PyList(<<custom_allergies>>)
            ELSE PyList(<<>>)
        ELSE custom_allergies
    ELSE custom_allergies

AllergensCustomFirst(pref) ==
    LET allergies == DictGet(pref, "allergies", PyList(<<>>))
        custom_allergies == DictGet(pref, "custom_allergies", PyList(<<>>))
    IN PyAdd(NormalizeCustomAllergies(allergies, custom_allergies), allergies)

\* allergies + custom_allergies as both functions compute it
Allergens(pref) ==
    LET allergies == DictGet(pref, "allergies", PyList(<<>>))
        custom_allergies == DictGet(pref, "custom_allergies", PyList(<<>>))
    IN PyAdd(allergies, NormalizeCustomAllergies(allergies, custom_allergies))

MenuExtractPreferencesFalsyGuests(pref) ==
    LET number_of_guests == DictGet(pref, "number_of_guests", None)
        allergens == Allergens(pref)
    IN IF ~Truthy(number_of_guests) THEN Raise("ValueError")
       ELSE IF allergens.t = "raise" THEN allergens
       ELSE PyDict("number_of_guests" :> number_of_guests
                   @@ "has_vegans" :> DictGet(pref, "has_vegans", PyBool(FALSE))
                   @@ "has_vegetarians" :> DictGet(pref, "has_vegetarians", PyBool(FALSE))
                   @@ "allergens" :> allergens)

\* MenuCreatorAgent._extract_preferences
MenuExtractPreferences(pref) ==
    LET number_of_guests == DictGet(pref, "number_of_guests", None)
        allergens == Allergens(pref)
    IN IF number_of_guests = None THEN Raise("ValueError")
       ELSE IF allergens.t = "raise" THEN allergens
       ELSE PyDict("number_of_guests" :> number_of_guests
                   @@ "has_vegans" :> DictGet(pref, "has_vegans", PyBool(FALSE))
                   @@ "has_vegetarians" :> DictGet(pref, "has_vegetarians", PyBool(FALSE))
                   @@ "allergens" :> allergens)

\* BaseRecipeAgent._extract_preferences
RecipeExtractPreferences(pref) ==
    LET allergens == Allergens(pref)
    IN IF pref.t # "dict" THEN Raise("AttributeError")
       ELSE IF allergens.t = "raise" THEN allergens
       ELSE PyDict("has_vegans" :> DictGet(pref, "has_vegans", PyBool(FALSE))
                   @@ "has_vegetarians" :> DictGet(pref, "has_vegetarians", PyBool(FALSE))
                   @@ "prefer_traditional" :> DictGet(pref, "prefer_traditional", PyBool(TRUE))
                   @@ "allergens" :> allergens
                   @@ "number_of_guests" :> DictGet(pref, "number_of_guests", PyStr(<<"unknown">>))
                   @@ "vegan_count" :> DictGet(pref, "vegan_count", PyInt(0))
                   @@ "vegetarian_count" :> DictGet(pref, "vegetarian_count", PyInt(0)))

\* BaseRecipeAgent.search: the dictionary returned when the LLM answers response_text
RecipeSearch(category, pref, response_text) ==
    LET prefs == RecipeExtractPreferences(pref)
    IN IF prefs.t = "raise" THEN prefs
       ELSE PyDict("category" :> PyStr(<<category>>)
                   @@ "raw_response" :> response_text
                   @@ "preferences_used" :> prefs)

\* MenuCreatorAgent.create_menu and create_menu_with_agents: the dictionary
\* returned when the LLM answers response_text
MenuResult(pref, response_text) ==
    LET dietary_info == MenuExtractPreferences(pref)
    IN IF dietary_info.t = "raise" THEN dietary_info
       ELSE PyDict("formatted_menu" :> response_text
                   @@ "number_of_guests" :> dietary_info.v["number_of_guests"]
                   @@ "dietary_accommodations" :>
                        PyDict("vegan_options" :> dietary_info.v["has_vegans"]
                               @@ "vegetarian_options" :> dietary_info.v["has_vegetarians"]
                               @@ "allergens_avoided" :> dietary_info.v["allergens"]))

\* _build_menu_prompt: the prompt's parts, or the exception _extract_preferences raises
BuildMenuPrompt(pref, suggestions) ==
    LET dietary_info == MenuExtractPreferences(pref)
    IN IF dietary_info.t = "raise" THEN dietary_info
       ELSE [t |-> "prompt", info |-> dietary_info, suggestions |-> suggestions]

\* one call of create_menu / create_menu_with_agents: _build_menu_prompt runs
\* first, then the LLM with tool_choice "auto", then the result is built
CreateMenuRun(pref, suggestions, response_text) ==
    LET prompt == BuildMenuPrompt(pref, suggestions)
    IN IF prompt.t = "raise"
       THEN [ret |-> prompt, llm_runs |-> 0, tool_choice |-> None]
       ELSE [ret |-> MenuResult(pref, response_text), llm_runs |-> 1,
             tool_choice |-> PyStr(<<"auto">>)]

\* one call of BaseRecipeAgent.search: _extract_preferences runs first, then
\* the LLM with tool_choice "required_first"
RecipeSearchRun(category, pref, response_text) ==
    LET prefs == RecipeExtractPreferences(pref)
    IN IF prefs.t = "raise"
       THEN [ret |-> prefs, llm_runs |-> 0, tool_choice |-> None]
       ELSE [ret |-> RecipeSearch(category, pref, response_text),
             llm_runs |-> 1, tool_choice |-> PyStr(<<"required_first">>)]

(***************************************************************************)
(* ChristmasMenuOrchestrator: run, run_streaming, run_with_native_agents   *)
(***************************************************************************)
Categories == <<"appetizer", "main_dish", "second_plate", "dessert">>

Modes == {"run", "run_streaming", "run_with_native_agents"}

\* the defaults the pipelines use for missing information
DefaultPreferences ==
    PyDict("number_of_guests" :> PyInt(6)
           @@ "has_vegetarians" :> PyBool(FALSE)
           @@ "vegetarian_count" :> PyInt(0)
           @@ "has_vegans" :> PyBool(FALSE)
           @@ "vegan_count" :> PyInt(0)
           @@ "allergies" :> PyList(<<>>)
           @@ "custom_allergies" :> PyList(<<>>)
           @@ "prefer_traditional" :> PyBool(TRUE)
           @@ "max_difficulty" :> PyStr(<<"medium">>))

\* the dictionary run starts from
InitialResult ==
    [success |-> FALSE, menu |-> None, preferences |-> None,
     agent_outputs |-> <<>>, error |-> None, provider |-> ProviderInfo]

\* the preferences a pipeline goes on with after the extraction
SelectPreferences(pr) ==
    IF ~pr.is_complete
    THEN IF Truthy(pr.preferences) THEN pr.preferences ELSE DefaultPreferences
    ELSE pr.preferences

\* an entry of the call log: a call of an agent that has ended, with what it
\* returned or raised
Call(agent, op, args, ret) == [agent |-> agent, op |-> op, args |-> args, ret |-> ret]

\* events of run_streaming
StatusEvent(message) == [type |-> "status", message |-> message]
WarningEvent == [type |-> "warning", message |-> "Using defaults for missing information"]
ProgressEvent(step, data) ==
    [type |-> "progress", step |-> step, message |-> "done", data |-> data]
StepEvent(step) ==
    [type |-> "step", step_index |-> step.index,
     message |-> IF step.chars > MessageLimit
                 THEN PyStr(step.text.v \o <<"[:100]", "...">>)
                 ELSE step.text]
CompleteEvent(menu, prefs) ==
    [type |-> "complete", message |-> "Menu created successfully!",
     menu |-> menu, preferences |-> prefs]

\* steps the menu creator's stream_invoke can yield
StepInputs ==
    {[text |-> PyStr(<<"step_a">>), chars |-> MessageLimit, index |-> 0],
     [text |-> PyStr(<<"step_b">>), chars |-> MessageLimit + 1, index |-> 1]}

OrchInit ==
    /\ mode = "none"
    /\ interactive = FALSE
    /\ pc = "idle"
    /\ holder = None
    /\ memory_turns = 0
    /\ preferences_result = None
    /\ preferences = None
    /\ result = None
    /\ recipe_results = <<>>
    /\ final_menu = None
    /\ events = <<>>
    /\ calls = <<>>
    /\ tool_calls = 0
    /\ steps = <<>>
    /\ menu_llm_runs = 0
    /\ exc = None
    /\ runs = 0

Finished == pc \in {"returned", "raised"}

\* A pipeline is entered and reaches the agent run of _run_extraction: run builds
\* its result, run_streaming yields its first two events, extract_preferences is
\* called and _run_extraction clears the result holder.
Start(m, i) ==
    /\ pc = "idle" \/ Finished
    /\ m # "run" => ~i
    /\ runs < MaxRuns
    /\ runs' = runs + 1
    /\ mode' = m
    /\ interactive' = i
    /\ result' = IF m = "run" THEN InitialResult ELSE None
    /\ events' = IF m = "run_streaming"
                 THEN <<StatusEvent("Starting Christmas Menu Planner"),
                        StatusEvent("Analyzing your requirements")>>
                 ELSE <<>>
    /\ calls' = <<>>
    /\ holder' = ClearedHolder(holder)
    /\ tool_calls' = 0
    /\ preferences_result' = None
    /\ preferences' = None
    /\ recipe_results' = <<>>
    /\ final_menu' = None
    /\ steps' = <<>>
    /\ menu_llm_runs' = 0
    /\ exc' = None
    /\ pc' = "info_run"
    /\ UNCHANGED memory_turns
    /\ UNCHANGED <<pxVars, storeVars, fmVars, ctVars, asVars>>

\* The info checker's agent run calls the finalize_extraction tool.
FinalizeExtractionCall(is_complete, preferences_json, missing_info, questions) ==
    /\ pc = "info_run"
    /\ tool_calls < MaxFinalizeCalls
    /\ tool_calls' = tool_calls + 1
    /\ holder' = FinalizeExtraction(is_complete, preferences_json, missing_info,
                                    questions, PyStr(<<"summary">>))
    /\ UNCHANGED <<mode, interactive, pc, memory_turns, preferences_result,
                   preferences, result, recipe_results, final_menu, events,
                   calls, steps, menu_llm_runs, exc, runs>>
    /\ UNCHANGED <<pxVars, storeVars, fmVars, ctVars, asVars>>

\* The agent run ends with response_text: _run_extraction adds the two turns to
\* the memory and returns.
ExtractionReturns(response_text) ==
    /\ pc = "info_run"
    /\ memory_turns' = memory_turns + 2
    /\ preferences_result' = RunExtractionResult(holder, response_text)
    /\ calls' = Append(calls, Call("info_checker", "extract_preferences", <<>>,
                                   RunExtractionResult(holder, response_text)))
    /\ pc' = "extracted"
    /\ UNCHANGED <<mode, interactive, holder, preferences, result, recipe_results,
                   final_menu, events, tool_calls, steps, menu_llm_runs,
                   exc, runs>>
    /\ UNCHANGED <<pxVars, storeVars, fmVars, ctVars, asVars>>

\* run, after extract_preferences returned: the early return of the interactive
\* mode, or the choice of the preferences and the print of the guest count
RunAfterExtraction ==
    /\ mode = "run"
    /\ pc = "extracted"
    /\ LET r1 == [result EXCEPT !.agent_outputs = ("info_checker" :> preferences_result) @@ @]
       IN IF ~preferences_result.is_complete /\ interactive
          THEN LET questions == AskMissingInfo(preferences_result.preferences,
                                               preferences_result.missing_info)
               IN /\ calls' = Append(calls, Call("info_checker", "ask_missing_info",
                                                 <<preferences_result.preferences,
                                                   preferences_result.missing_info>>,
                                                 questions))
                  /\ IF questions.t = "raise"
                     THEN /\ pc' = "raised"
                          /\ exc' = questions
                          /\ result' = r1
                     ELSE /\ pc' = "returned"
                          /\ exc' = exc
                          /\ result' = [r1 EXCEPT !.error = PyStr(<<"Missing required information">>)]
                  /\ UNCHANGED preferences
          ELSE LET p == SelectPreferences(preferences_result)
               IN /\ preferences' = p
                  /\ result' = [r1 EXCEPT !.preferences = p]
                  /\ IF p.t # "dict"
                     THEN pc' = "raised" /\ exc' = Raise("AttributeError")
                     ELSE pc' = "search" /\ exc' = exc
                  /\ UNCHANGED calls
    /\ UNCHANGED <<mode, interactive, holder, memory_turns, preferences_result,
                   recipe_results, final_menu, events, tool_calls, steps,
                   menu_llm_runs, runs>>
    /\ UNCHANGED <<pxVars, storeVars, fmVars, ctVars, asVars>>

\* run: the search of the next category agent, whose LLM answers response_text
RunSearch(response_text) ==
    /\ mode = "run"
    /\ pc = "search"
    /\ LET i == Cardinality(DOMAIN recipe_results) + 1
           category == Categories[i]
           r == RecipeSearch(category, preferences, response_text)
       IN /\ calls' = Append(calls, Call(category, "search", <<preferences>>, r))
          /\ IF r.t = "raise"
             THEN /\ pc' = "raised"
                  /\ exc' = r
                  /\ UNCHANGED <<recipe_results, result>>
             ELSE /\ recipe_results' = (category :> r) @@ recipe_results
                  /\ result' = [result EXCEPT !.agent_outputs = (category :> r) @@ @]
                  /\ pc' = IF i = Len(Categories) THEN "create_menu" ELSE "search"
                  /\ exc' = exc
    /\ UNCHANGED <<mode, interactive, holder, memory_turns, preferences_result,
                   preferences, final_menu, events, tool_calls, steps,
                   menu_llm_runs, runs>>
    /\ UNCHANGED <<pxVars, storeVars, fmVars, ctVars, asVars>>

\* the raw_response of the four search results, in the order of the categories
Suggestions(results) ==
    [c \in 1..Len(Categories) |->
        DictGet(results[Categories[c]], "raw_response", PyStr(<<>>))]

RunFinishWithoutOutput(res, menu_result) ==
    [res EXCEPT !.menu = DictGet(menu_result, "formatted_menu", PyStr(<<>>)),
                !.success = TRUE]

\* run: the result returned once the menu is created
RunFinish(res, menu_result) ==
    [res EXCEPT !.agent_outputs = ("menu_creator" :> menu_result) @@ @,
                !.menu = DictGet(menu_result, "formatted_menu", PyStr(<<>>)),
                !.success = TRUE]

\* run: create_menu, whose LLM answers response_text, and the return
RunCreateMenu(response_text) ==
    /\ mode = "run"
    /\ pc = "create_menu"
    /\ LET suggestions == Suggestions(recipe_results)
           prompt == BuildMenuPrompt(preferences, suggestions)
           menu_result == MenuResult(preferences, response_text)
       IN /\ calls' = Append(calls, Call("menu_creator", "create_menu",
                                         <<preferences>> \o suggestions,
                                         IF prompt.t = "raise" THEN prompt ELSE menu_result))
          /\ IF prompt.t = "raise"
             THEN /\ pc' = "raised"
                  /\ exc' = prompt
                  /\ UNCHANGED <<result, menu_llm_runs>>
             ELSE /\ menu_llm_runs' = menu_llm_runs + 1
                  /\ result' = RunFinish(result, menu_result)
                  /\ pc' = "returned"
                  /\ exc' = exc
    /\ UNCHANGED <<mode, interactive, holder, memory_turns, preferences_result,
                   preferences, recipe_results, final_menu, events, tool_calls,
                   steps, runs>>
    /\ UNCHANGED <<pxVars, storeVars, fmVars, ctVars, asVars>>

\* run_streaming, after extract_preferences returned: the choice of the
\* preferences, the warning and the progress event of the info checker
StreamAfterExtraction ==
    /\ mode = "run_streaming"
    /\ pc = "extracted"
    /\ LET p == SelectPreferences(preferences_result)
           warned == IF ~preferences_result.is_complete
                     THEN Append(events, WarningEvent) ELSE events
       IN /\ preferences' = p
          /\ IF p.t # "dict"
             THEN /\ pc' = "raised"
                  /\ exc' = Raise("AttributeError")
                  /\ events' = warned
             ELSE /\ pc' = "search"
                  /\ exc' = exc
                  /\ events' = Append(warned, ProgressEvent("info_checker", p))
    /\ UNCHANGED <<mode, interactive, holder, memory_turns, preferences_result,
                   result, recipe_results, final_menu, calls, tool_calls, steps,
                   menu_llm_runs, runs>>
    /\ UNCHANGED <<pxVars, storeVars, fmVars, ctVars, asVars>>

\* run_streaming: the status event, the search of the next category agent and
\* its progress event
StreamSearch(response_text) ==
    /\ mode = "run_streaming"
    /\ pc = "search"
    /\ LET i == Cardinality(DOMAIN recipe_results) + 1
           category == Categories[i]
           r == RecipeSearch(category, preferences, response_text)
           announced == Append(events, StatusEvent(category))
       IN /\ calls' = Append(calls, Call(category, "search", <<preferences>>, r))
          /\ IF r.t = "raise"
             THEN /\ pc' = "raised"
                  /\ exc' = r
                  /\ events' = announced
                  /\ UNCHANGED recipe_results
             ELSE /\ recipe_results' = (category :> r) @@ recipe_results
                  /\ events' = Append(announced, ProgressEvent(category, r))
                  /\ pc' = IF i = Len(Categories) THEN "create_menu" ELSE "search"
                  /\ exc' = exc
    /\ UNCHANGED <<mode, interactive, holder, memory_turns, preferences_result,
                   preferences, result, final_menu, tool_calls, steps,
                   menu_llm_runs, runs>>
    /\ UNCHANGED <<pxVars, storeVars, fmVars, ctVars, asVars>>

\* run_streaming: the status event and the start of create_menu_streaming, which
\* builds the prompt and starts the LLM's stream
StreamCreateMenu ==
    /\ mode = "run_streaming"
    /\ pc = "create_menu"
    /\ LET suggestions == Suggestions(recipe_results)
           prompt == BuildMenuPrompt(preferences, suggestions)
       IN /\ calls' = Append(calls, Call("menu_creator", "create_menu_streaming",
                                         <<preferences>> \o suggestions,
                                         IF prompt.t = "raise" THEN prompt ELSE None))
          /\ events' = Append(events, StatusEvent("Creating your personalized menu"))
          /\ IF prompt.t = "raise"
             THEN /\ pc' = "raised"
                  /\ exc' = prompt
                  /\ UNCHANGED menu_llm_runs
             ELSE /\ pc' = "menu_stream"
                  /\ exc' = exc
                  /\ menu_llm_runs' = menu_llm_runs + 1
    /\ UNCHANGED <<mode, interactive, holder, memory_turns, preferences_result,
                   preferences, result, recipe_results, final_menu, tool_calls,
                   steps, runs>>
    /\ UNCHANGED <<pxVars, storeVars, fmVars, ctVars, asVars>>

\* run_streaming: the menu creator yields a step
StreamStep(step) ==
    /\ mode = "run_streaming"
    /\ pc = "menu_stream"
    /\ Len(steps) < MaxSteps
    /\ steps' = Append(steps, step)
    /\ events' = Append(events, StepEvent(step))
    /\ final_menu' = step.text
    /\ UNCHANGED <<mode, interactive, pc, holder, memory_turns, preferences_result,
                   preferences, result, recipe_results, calls, tool_calls,
                   menu_llm_runs, exc, runs>>
    /\ UNCHANGED <<pxVars, storeVars, fmVars, ctVars, asVars>>

\* run_streaming: the menu creator's stream ends and the complete event is yielded
StreamComplete ==
    /\ mode = "run_streaming"
    /\ pc = "menu_stream"
    /\ events' = Append(events, CompleteEvent(final_menu, preferences))
    /\ pc' = "returned"
    /\ UNCHANGED <<mode, interactive, holder, memory_turns, preferences_result,
                   preferences, result, recipe_results, final_menu, calls,
                   tool_calls, steps, menu_llm_runs, exc, runs>>
    /\ UNCHANGED <<pxVars, storeVars, fmVars, ctVars, asVars>>

\* run_with_native_agents, after extract_preferences returned
NativeAfterExtraction ==
    /\ mode = "run_with_native_agents"
    /\ pc = "extracted"
    /\ LET p == SelectPreferences(preferences_result)
       IN /\ preferences' = p
          /\ IF p.t # "dict"
             THEN pc' = "raised" /\ exc' = Raise("AttributeError")
             ELSE pc' = "create_menu" /\ exc' = exc
    /\ UNCHANGED <<mode, interactive, holder, memory_turns, preferences_result,
                   result, recipe_results, final_menu, events, calls, tool_calls,
                   steps, menu_llm_runs, runs>>
    /\ UNCHANGED <<pxVars, storeVars, fmVars, ctVars, asVars>>

\* run_with_native_agents: create_menu_with_agents, whose LLM answers
\* response_text, and the return
NativeCreateMenu(response_text) ==
    /\ mode = "run_with_native_agents"
    /\ pc = "create_menu"
    /\ LET prompt == BuildMenuPrompt(preferences, <<>>)
           menu_result == MenuResult(preferences, response_text)
       IN /\ calls' = Append(calls, Call("menu_creator", "create_menu_with_agents",
                                         <<preferences>>,
                                         IF prompt.t = "raise" THEN prompt ELSE menu_result))
          /\ IF prompt.t = "raise"
             THEN /\ pc' = "raised"
                  /\ exc' = prompt
                  /\ UNCHANGED <<result, menu_llm_runs>>
             ELSE /\ menu_llm_runs' = menu_llm_runs + 1
                  /\ result' = [success |-> TRUE,
                                menu |-> DictGet(menu_result, "formatted_menu", PyStr(<<>>)),
                                preferences |-> preferences,
                                provider |-> ProviderInfo]
                  /\ pc' = "returned"
                  /\ exc' = exc
    /\ UNCHANGED <<mode, interactive, holder, memory_turns, preferences_result,
                   preferences, recipe_results, final_menu, events, tool_calls,
                   steps, runs>>
    /\ UNCHANGED <<pxVars, storeVars, fmVars, ctVars, asVars>>

\* a key that is not in the dictionary
Absent == [t |-> "absent"]

\* the value of a result slot before the function is applied
NotCalled == [t |-> "not called"]

PxIdle ==
    /\ px_in = None
    /\ px_menu = NotCalled
    /\ px_recipe = NotCalled
    /\ px_pc = "idle"
    /\ px_create = NotCalled
    /\ px_search = NotCalled

CtIdle ==
    /\ ct_pc = "idle"
    /\ ct_setting = "openai"
    /\ ct_args = None
    /\ ct_created = <<>>
    /\ ct_connected = <<>>
    /\ ct_exc = None

FmIdle ==
    /\ fm_args = None
    /\ fm_ret = NotCalled

AsIdle == as_prev = None

StoreIdle ==
    /\ store = {}
    /\ st_pc = "idle"
    /\ st_calls = <<>>
    /\ st_ret = None
    /\ st_req = None

Init == OrchInit /\ PxIdle /\ StoreIdle /\ FmIdle /\ CtIdle /\ AsIdle

Next ==
    \/ \E m \in Modes, i \in BOOLEAN : Start(m, i)
    \/ \E is_complete \in BOOLEAN, preferences_json \in PreferencesJsonInputs,
          a \in ListArgInputs :
          FinalizeExtractionCall(is_complete, preferences_json, a.missing_info, a.questions)
    \/ \E response_text \in InfoTexts : ExtractionReturns(response_text)
    \/ RunAfterExtraction
    \/ \E response_text \in Texts : RunSearch(response_text)
    \/ \E response_text \in Texts : RunCreateMenu(response_text)
    \/ StreamAfterExtraction
    \/ \E response_text \in Texts : StreamSearch(response_text)
    \/ StreamCreateMenu
    \/ \E step \in StepInputs : StreamStep(step)
    \/ StreamComplete
    \/ NativeAfterExtraction
    \/ \E response_text \in Texts : NativeCreateMenu(response_text)

Spec == Init /\ [][Next]_vars

(***************************************************************************)
(* _extract_preferences as a pure function: a preferences dictionary is    *)
(* drawn, and each of the two functions is applied to it once.             *)
(***************************************************************************)
AllergyNames == {PyStr(<<"nuts">>), PyStr(<<"soy">>)}

SeqsUpTo(S, n) == UNION {[1..k -> S] : k \in 0..n}

\* values of the allergies and custom_allergies keys: a list of names, a str or
\* None; Absent stands for a key that is not in the dictionary
AllergyInputs ==
    {PyList(l) : l \in SeqsUpTo(AllergyNames, MaxAllergies)}
    \cup {PyStr(<<"nuts">>), None}

GuestInputs == {PyInt(4)}

PxDict(guests, has_vegans, allergies, custom_allergies) ==
    PyDict((IF guests = Absent THEN <<>> ELSE "number_of_guests" :> guests)
           @@ (IF has_vegans = Absent THEN <<>> ELSE "has_vegans" :> has_vegans)
           @@ (IF allergies = Absent THEN <<>> ELSE "allergies" :> allergies)
           @@ (IF custom_allergies = Absent THEN <<>>
               ELSE "custom_allergies" :> custom_allergies))

PxInit ==
    /\ \E guests \in GuestInputs \cup {Absent},
          has_vegans \in {PyBool(TRUE), Absent},
          allergies \in AllergyInputs \cup {Absent},
          custom_allergies \in AllergyInputs \cup {Absent} :
          px_in = PxDict(guests, has_vegans, allergies, custom_allergies)
    /\ px_menu = NotCalled
    /\ px_recipe = NotCalled
    /\ px_pc = "idle"
    /\ px_create = NotCalled
    /\ px_search = NotCalled

\* MenuCreatorAgent._extract_preferences is applied to the dictionary
PxMenuExtract ==
    /\ px_menu = NotCalled
    /\ px_menu' = MenuExtractPreferences(px_in)
    /\ px_pc' = "called"
    /\ UNCHANGED <<px_in, px_recipe, px_create, px_search>>
    /\ UNCHANGED <<orchVars, storeVars, fmVars, ctVars, asVars>>

\* BaseRecipeAgent._extract_preferences is applied to the dictionary
PxRecipeExtract ==
    /\ px_recipe = NotCalled
    /\ px_recipe' = RecipeExtractPreferences(px_in)
    /\ px_pc' = "called"
    /\ UNCHANGED <<px_in, px_menu, px_create, px_search>>
    /\ UNCHANGED <<orchVars, storeVars, fmVars, ctVars, asVars>>

\* create_menu (with the four suggestion texts) or create_menu_with_agents is
\* called on the dictionary and the LLM answers response_text
PxCreateMenu(op, response_text) ==
    /\ px_create = NotCalled
    /\ px_create' = [op |-> op, response_text |-> response_text] @@
           CreateMenuRun(px_in,
                         IF op = "create_menu"
                         THEN [i \in 1..Len(Categories) |-> PyStr(<<"suggestions">>)]
                         ELSE <<>>,
                         response_text)
    /\ px_pc' = "called"
    /\ UNCHANGED <<px_in, px_menu, px_recipe, px_search>>
    /\ UNCHANGED <<orchVars, storeVars, fmVars, ctVars, asVars>>

\* the search of the recipe agent of a category is called on the dictionary
\* and the LLM answers response_text
PxSearch(category, response_text) ==
    /\ px_search = NotCalled
    /\ px_search' = [category |-> category, response_text |-> response_text] @@
           RecipeSearchRun(category, px_in, response_text)
    /\ px_pc' = "called"
    /\ UNCHANGED <<px_in, px_menu, px_recipe, px_create>>
    /\ UNCHANGED <<orchVars, storeVars, fmVars, ctVars, asVars>>

PrefsInit == OrchInit /\ PxInit /\ StoreIdle /\ FmIdle /\ CtIdle /\ AsIdle

PrefsNext ==
    \/ PxMenuExtract
    \/ PxRecipeExtract
    \/ \E op \in {"create_menu", "create_menu_with_agents"},
          response_text \in Texts : PxCreateMenu(op, response_text)
    \/ \E i \in 1..Len(Categories), response_text \in Texts :
          PxSearch(Categories[i], response_text)

SpecPrefs == PrefsInit /\ [][PrefsNext]_vars

(***************************************************************************)
(* The recipe store: models/recipe.py, database/vector_store.py,           *)
(* database/recipe_loader.py and tools/recipe_search.py.  A recipe keeps   *)
(* the fields the filters read (id, category, dietary_tags,                *)
(* prep_time_minutes, is_christmas_traditional); the collection is the set *)
(* of chunks the Qdrant collection holds.                                  *)
(***************************************************************************)
CategoryValues == {PyStr(<<c>>) : c \in {Categories[i] : i \in 1..Len(Categories)}}

DietaryTagValues ==
    {"vegan", "vegetarian", "gluten_free", "dairy_free", "nut_free",
     "low_carb", "traditional"}

\* Recipe.model_validate: id and category are required, category and the tags
\* must be enum values, the other fields take their defaults
ModelValidate(recipe_data) ==
    IF /\ {"id", "category"} \subseteq DOMAIN recipe_data
       /\ recipe_data.category \in CategoryValues
       /\ "dietary_tags" \in DOMAIN recipe_data =>
              \A i \in 1..Len(recipe_data.dietary_tags) :
                  recipe_data.dietary_tags[i] \in DietaryTagValues
    THEN [t |-> "recipe",
          id |-> recipe_data.id,
          category |-> recipe_data.category,
          dietary_tags |-> IF "dietary_tags" \in DOMAIN recipe_data
                           THEN recipe_data.dietary_tags ELSE <<>>,
          prep_time_minutes |-> IF "prep_time_minutes" \in DOMAIN recipe_data
                                THEN recipe_data.prep_time_minutes ELSE None,
          is_christmas_traditional |->
              IF "is_christmas_traditional" \in DOMAIN recipe_data
              THEN recipe_data.is_christmas_traditional ELSE None]
    ELSE Raise("ValidationError")

\* Recipe.model_dump_json and Recipe.model_validate_json
ModelDumpJson(recipe) == [t |-> "json", v |-> recipe]

ModelValidateJson(recipe_json) ==
    IF recipe_json.t = "json" THEN ModelValidate(recipe_json.v)
    ELSE Raise("ValidationError")

\* the sample recipes, one of each category standing for the four in the source
SampleRecipes ==
    << [id |-> "it_app_001", category |-> PyStr(<<"appetizer">>),
        dietary_tags |-> <<"vegan", "vegetarian">>,
        prep_time_minutes |-> PyInt(10),
        is_christmas_traditional |-> PyBool(FALSE)],
       [id |-> "it_main_001", category |-> PyStr(<<"main_dish">>),
        dietary_tags |-> <<"vegetarian">>,
        prep_time_minutes |-> PyInt(30),
        is_christmas_traditional |-> PyBool(TRUE)],
       [id |-> "it_sec_001", category |-> PyStr(<<"second_plate">>),
        dietary_tags |-> <<"gluten_free", "dairy_free">>,
        prep_time_minutes |-> PyInt(30),
        is_christmas_traditional |-> PyBool(TRUE)],
       [id |-> "it_des_001", category |-> PyStr(<<"dessert">>),
        dietary_tags |-> <<"vegetarian", "nut_free">>,
        prep_time_minutes |-> PyInt(10),
        is_christmas_traditional |-> PyBool(TRUE)] >>

\* the recipe lists that JSON files on disk hold; a path that is not a key
\* does not exist
JsonFiles ==
    "recipes.json" :>
        << [id |-> "file_app_001", category |-> PyStr(<<"appetizer">>),
            prep_time_minutes |-> PyInt(30)],
           [id |-> "file_bad_001", category |-> PyStr(<<"drink">>)],
           [category |-> PyStr(<<"dessert">>)] >>
    @@ "twice.json" :>
        << [id |-> "file_app_001", category |-> PyStr(<<"appetizer">>),
            prep_time_minutes |-> PyInt(30)],
           [id |-> "file_app_001", category |-> PyStr(<<"appetizer">>),
            prep_time_minutes |-> PyInt(30)] >>
    @@ "empty.json" :> <<>>

JsonFileInputs ==
    {None, PyStr(<<>>), PyStr(<<"recipes.json">>), PyStr(<<"twice.json">>),
     PyStr(<<"empty.json">>), PyStr(<<"missing.json">>)}

FlagOrder ==
    <<"is_vegan", "is_vegetarian", "is_gluten_free", "is_dairy_free",
      "is_nut_free">>

FlagNames == {FlagOrder[i] : i \in 1..Len(FlagOrder)}

\* the dietary tag behind a metadata flag: "is_vegan" is "vegan" in the tags
FlagTag ==
    "is_vegan" :> "vegan" @@ "is_vegetarian" :> "vegetarian"
    @@ "is_gluten_free" :> "gluten_free" @@ "is_dairy_free" :> "dairy_free"
    @@ "is_nut_free" :> "nut_free"

RecipeToMetadata(recipe) ==
    [category |-> recipe.category,
     is_vegan |-> PyBool(InSeq("vegan", recipe.dietary_tags)),
     is_vegetarian |-> PyBool(InSeq("vegetarian", recipe.dietary_tags)),
     is_gluten_free |-> PyBool(InSeq("gluten_free", recipe.dietary_tags)),
     is_dairy_free |-> PyBool(InSeq("dairy_free", recipe.dietary_tags)),
     is_nut_free |-> PyBool(InSeq("nut_free", recipe.dietary_tags)),
     is_christmas_traditional |-> recipe.is_christmas_traditional,
     prep_time_minutes |-> recipe.prep_time_minutes,
     dietary_tags |-> recipe.dietary_tags,
     recipe_json |-> ModelDumpJson(recipe)]

CreateChunk(recipe) == [id |-> recipe.id, metadata |-> RecipeToMetadata(recipe)]

AddChunksKeepingStored(collection, chunks) ==
    collection \cup {chunks[i] : i \in {k \in 1..Len(chunks) :
                                          \A c \in collection : c.id # chunks[k].id}}

\* vectorstore.add: a chunk replaces the stored chunk of the same id
AddChunks(collection, chunks) ==
    LET kept == {i \in 1..Len(chunks) :
                    \A j \in (i + 1)..Len(chunks) : chunks[j].id # chunks[i].id}
        ids == {chunks[i].id : i \in 1..Len(chunks)}
    IN {c \in collection : c.id \notin ids} \cup {chunks[i] : i \in kept}

MatchCondition(key, value) == [key |-> key, match |-> [value |-> value]]

RangeCondition(key, lte) == [key |-> key, range |-> [lte |-> lte]]

BuildFilterTruthyPrepTime(category, diet, max_prep_time, prefer_traditional) ==
    LET flags == SelectSeq(FlagOrder, LAMBDA f : diet[f] = PyBool(TRUE))
        conditions ==
            (IF Truthy(category) THEN <<MatchCondition("category", category)>>
             ELSE <<>>)
            \o [i \in 1..Len(flags) |-> MatchCondition(flags[i], PyBool(TRUE))]
            \o (IF Truthy(max_prep_time)
                THEN <<RangeCondition("prep_time_minutes", max_prep_time)>>
                ELSE <<>>)
            \o (IF Truthy(prefer_traditional)
                THEN <<MatchCondition("is_christmas_traditional", PyBool(TRUE))>>
                ELSE <<>>)
    IN IF conditions = <<>> THEN None
       ELSE IF Len(conditions) = 1 THEN conditions[1]
       ELSE [must |-> conditions]

\* diet maps each flag name to True, False or None
BuildFilter(category, diet, max_prep_time, prefer_traditional) ==
    LET flags == SelectSeq(FlagOrder, LAMBDA f : diet[f] = PyBool(TRUE))
        conditions ==
            (IF Truthy(category) THEN <<MatchCondition("category", category)>>
             ELSE <<>>)
            \o [i \in 1..Len(flags) |-> MatchCondition(flags[i], PyBool(TRUE))]
            \o (IF max_prep_time # None
                THEN <<RangeCondition("prep_time_minutes", max_prep_time)>>
                ELSE <<>>)
            \o (IF Truthy(prefer_traditional)
                THEN <<MatchCondition("is_christmas_traditional", PyBool(TRUE))>>
                ELSE <<>>)
    IN IF conditions = <<>> THEN None
       ELSE IF Len(conditions) = 1 THEN conditions[1]
       ELSE [must |-> conditions]

\* the conditions of a filter as the collection evaluates them
FilterConditions(search_filter) ==
    IF search_filter = None THEN <<>>
    ELSE IF "must" \in DOMAIN search_filter THEN search_filter.must
    ELSE <<search_filter>>

ConditionHolds(chunk, condition) ==
    LET value == chunk.metadata[condition.key]
    IN IF "match" \in DOMAIN condition THEN value = condition.match.value
       ELSE value.t = "int" /\ value.v <= condition.range.lte.v

Matching(collection, search_filter) ==
    {c \in collection :
        \A i \in 1..Len(FilterConditions(search_filter)) :
            ConditionHolds(c, FilterConditions(search_filter)[i])}

Min(a, b) == IF a <= b THEN a ELSE b

\* vectorstore.search: the k chunks nearest to the query among those matching
\* the filter; which ones are nearest is the embedding's choice
VectorSearch(collection, k, search_filter) ==
    LET matching == Matching(collection, search_filter)
    IN {S \in SUBSET matching : Cardinality(S) = Min(k, Cardinality(matching))}

\* the recipes parsed out of the chunks a search returned
ParseChunks(chunks) ==
    {ModelValidateJson(c.metadata.recipe_json) :
        c \in {d \in chunks :
                  /\ "recipe_json" \in DOMAIN d.metadata
                  /\ ModelValidateJson(d.metadata.recipe_json).t # "raise"}}

VectorSearchCall(search_filter, ret) ==
    [op |-> "vectorstore.search", filter |-> search_filter, ret |-> ret]

\* every run of search_recipes on a collection: the vector-store calls it makes
\* and what it returns.  The embedder or the second search may raise; a first
\* search that raises is repeated without the filter.
SearchRecipesRuns(collection, category, n_results, diet, max_prep_time, prefer_traditional) ==
    LET search_filter ==
            BuildFilter(category, diet, max_prep_time, prefer_traditional)
        failed == VectorSearchCall(search_filter, Raise("Exception"))
    IN {[calls |-> <<>>, ret |-> Raise("Exception")]}
       \cup {[calls |-> <<VectorSearchCall(search_filter, [t |-> "chunks", v |-> S])>>,
              ret |-> [t |-> "recipes", v |-> ParseChunks(S)]] :
                S \in VectorSearch(collection, n_results, search_filter)}
       \cup {[calls |-> <<failed, VectorSearchCall(Absent, [t |-> "chunks", v |-> S])>>,
              ret |-> [t |-> "recipes", v |-> ParseChunks(S)]] :
                S \in VectorSearch(collection, n_results, None)}
       \cup {[calls |-> <<failed, VectorSearchCall(Absent, Raise("Exception"))>>,
              ret |-> Raise("Exception")]}

\* the text handed to the agent lists the recipes found
FormatRecipesForAgent(recipes) ==
    IF recipes = {} THEN PyStr(<<"No recipes found matching the criteria.">>)
    ELSE [t |-> "listing", v |-> recipes]

\* vector_store.clear_all: every chunk with an id is removed, and a failure of
\* the collection is swallowed
ClearAll(collection, ok) ==
    IF ok THEN {c \in collection : c.id = ""} ELSE collection

\* vector_store.add_recipes; the embedder or the collection may raise
AddRecipes(collection, recipes, ok) ==
    IF recipes = <<>> THEN [collection |-> collection, ret |-> None]
    ELSE IF ok
    THEN [collection |->
              AddChunks(collection,
                        [i \in 1..Len(recipes) |-> CreateChunk(recipes[i])]),
          ret |-> None]
    ELSE [collection |-> collection, ret |-> Raise("Exception")]

LoadFromDictListCountingAll(collection, recipes_data, ok) ==
    LET recipes ==
            SelectSeq([i \in 1..Len(recipes_data) |->
                          ModelValidate(recipes_data[i])],
                      LAMBDA r : r.t # "raise")
        added == AddRecipes(collection, recipes, ok)
        on_store == IF recipes = <<>> THEN <<>>
                    ELSE <<[op |-> "add_recipes", args |-> <<recipes>>,
                            ret |-> added.ret]>>
    IN [collection |-> added.collection,
        ret |-> IF added.ret = None THEN PyInt(Len(recipes_data)) ELSE added.ret,
        calls |-> on_store]

\* load_from_dict_list, and load_from_json_file once the file is read: the
\* collection afterwards, what is returned or raised, the calls on the store
LoadFromDictList(collection, recipes_data, ok) ==
    LET recipes ==
            SelectSeq([i \in 1..Len(recipes_data) |->
                          ModelValidate(recipes_data[i])],
                      LAMBDA r : r.t # "raise")
        added == AddRecipes(collection, recipes, ok)
        on_store == IF recipes = <<>> THEN <<>>
                    ELSE <<[op |-> "add_recipes", args |-> <<recipes>>,
                            ret |-> added.ret]>>
    IN [collection |-> added.collection,
        ret |-> IF added.ret = None THEN PyInt(Len(recipes)) ELSE added.ret,
        calls |-> on_store]

LoadSampleRecipes(collection, ok) ==
    LoadFromDictList(collection, SampleRecipes, ok)

PathName(file_path) == IF file_path.v = <<>> THEN "" ELSE file_path.v[1]

LoadFromJsonFile(collection, file_path, ok) ==
    IF PathName(file_path) \notin DOMAIN JsonFiles
    THEN [collection |-> collection, ret |-> Raise("FileNotFoundError"),
          calls |-> <<>>]
    ELSE LoadFromDictList(collection, JsonFiles[PathName(file_path)], ok)

ReloadUsesJsonFileWhenNotNone(json_file) == json_file # None

\* reload_recipes reads a file when json_file is truthy
ReloadUsesJsonFile(json_file) == Truthy(json_file)

\* the chunks of every recipe the loaders can store
CatalogueChunks ==
    {CreateChunk(ModelValidate(SampleRecipes[i])) : i \in 1..Len(SampleRecipes)}
    \cup {CreateChunk(ModelValidate(JsonFiles["recipes.json"][1]))}

ToolFlagInputs ==
    {flags \in [FlagNames -> BOOLEAN] :
        Cardinality({f \in FlagNames : flags[f]}) <= MaxFlags}

StoreInit ==
    /\ store \in SUBSET CatalogueChunks
    /\ st_pc = "idle"
    /\ st_calls = <<>>
    /\ st_ret = None
    /\ st_req = None

\* search_appetizers, search_main_dishes, search_second_plates, search_desserts
SearchTool(category, flags, max_prep_time, prefer_traditional, n_results) ==
    /\ st_pc = "idle"
    /\ \E run \in SearchRecipesRuns(
                      store, category, n_results,
                      [f \in FlagNames |->
                          IF flags[f] THEN PyBool(TRUE) ELSE None],
                      max_prep_time, PyBool(prefer_traditional)) :
           /\ st_calls' = run.calls
           /\ st_ret' = IF run.ret.t = "raise" THEN run.ret
                        ELSE FormatRecipesForAgent(run.ret.v)
    /\ st_req' = [op |-> "search_tool", category |-> category,
                  flags |-> {f \in FlagNames : flags[f]},
                  max_prep_time |-> max_prep_time,
                  prefer_traditional |-> prefer_traditional,
                  n_results |-> n_results]
    /\ st_pc' = "done"
    /\ UNCHANGED store
    /\ UNCHANGED <<orchVars, pxVars, fmVars, ctVars, asVars>>

\* reload_recipes up to the return of clear_all
ReloadClear(json_file, ok) ==
    /\ st_pc = "idle"
    /\ store' = ClearAll(store, ok)
    /\ st_calls' = <<[op |-> "clear_all", args |-> <<>>, ret |-> None]>>
    /\ st_req' = [op |-> "reload_recipes", json_file |-> json_file,
                  collection |-> store]
    /\ st_pc' = "reload_load"
    /\ UNCHANGED st_ret
    /\ UNCHANGED <<orchVars, pxVars, fmVars, ctVars, asVars>>

\* reload_recipes from the choice of the loader to the return
ReloadLoad(ok) ==
    /\ st_pc = "reload_load"
    /\ LET json_file == st_req.json_file
           from_file == ReloadUsesJsonFile(json_file)
           load == IF from_file THEN LoadFromJsonFile(store, json_file, ok)
                   ELSE LoadSampleRecipes(store, ok)
       IN /\ store' = load.collection
          /\ st_calls' =
                 Append(st_calls,
                        [op |-> IF from_file THEN "load_from_json_file"
                                ELSE "load_sample_recipes",
                         args |-> IF from_file THEN <<json_file>> ELSE <<>>,
                         ret |-> load.ret])
          /\ st_ret' = load.ret
    /\ st_pc' = "done"
    /\ UNCHANGED st_req
    /\ UNCHANGED <<orchVars, pxVars, fmVars, ctVars, asVars>>

\* the caller takes the result; the store is ready for the next operation
StoreReturn ==
    /\ st_pc = "done"
    /\ st_pc' = "idle"
    /\ st_calls' = <<>>
    /\ st_ret' = None
    /\ st_req' = None
    /\ UNCHANGED store
    /\ UNCHANGED <<orchVars, pxVars, fmVars, ctVars, asVars>>


(***************************************************************************)
(* format_final_menu (agents/menu_creator.py) as a pure function.  The     *)
(* menu string is the sequence of its parts: the title and guest lines,    *)
(* section headers, the texts given, the footer.                           *)
(***************************************************************************)
Header(name) == [kind |-> "header", name |-> name]

MenuText(text) == [kind |-> "text", v |-> text]

TitleLine(title) == [kind |-> "title", v |-> title]

GuestsLine(number_of_guests) == [kind |-> "guests", v |-> number_of_guests]

Footer == [kind |-> "footer", name |-> "Happy Christmas!"]

FormatParameters ==
    {"title", "appetizers", "main_dishes", "second_plates", "desserts",
     "number_of_guests", "preparation_notes", "shopping_tips"}

FormatFinalMenuAlwaysTimeline(args) ==
    IF DOMAIN args # FormatParameters THEN Raise("TypeError")
    ELSE PyStr(<<TitleLine(args.title), GuestsLine(args.number_of_guests),
                 Header("APPETIZERS"), MenuText(args.appetizers),
                 Header("MAIN DISHES"), MenuText(args.main_dishes),
                 Header("SECOND PLATES"), MenuText(args.second_plates),
                 Header("DESSERTS"), MenuText(args.desserts),
                 Header("PREPARATION TIMELINE"),
                 MenuText(args.preparation_notes)>>
               \o (IF Truthy(args.shopping_tips)
                   THEN <<Header("SHOPPING TIPS"), MenuText(args.shopping_tips)>>
                   ELSE <<>>)
               \o <<Footer>>)

\* args holds the keyword arguments of the call; no parameter has a default,
\* so a call that leaves one out raises TypeError
FormatFinalMenu(args) ==
    IF DOMAIN args # FormatParameters THEN Raise("TypeError")
    ELSE PyStr(<<TitleLine(args.title), GuestsLine(args.number_of_guests),
                 Header("APPETIZERS"), MenuText(args.appetizers),
                 Header("MAIN DISHES"), MenuText(args.main_dishes),
                 Header("SECOND PLATES"), MenuText(args.second_plates),
                 Header("DESSERTS"), MenuText(args.desserts)>>
               \o (IF Truthy(args.preparation_notes)
                   THEN <<Header("PREPARATION TIMELINE"),
                          MenuText(args.preparation_notes)>>
                   ELSE <<>>)
               \o (IF Truthy(args.shopping_tips)
                   THEN <<Header("SHOPPING TIPS"), MenuText(args.shopping_tips)>>
                   ELSE <<>>)
               \o <<Footer>>)

CourseTexts == {PyStr(<<"Test course">>), PyStr(<<>>)}

OptionalTexts == {PyStr(<<"Start early">>), PyStr(<<>>), None}

\* the keyword arguments of a call; Absent leaves the argument out
FormatArgs(appetizers, desserts, number_of_guests, preparation_notes, shopping_tips) ==
    [title |-> PyStr(<<"Christmas Dinner 2024">>),
     appetizers |-> appetizers,
     main_dishes |-> PyStr(<<"Test main dish">>),
     second_plates |-> PyStr(<<"Test second plate">>),
     desserts |-> desserts,
     number_of_guests |-> number_of_guests]
    @@ (IF preparation_notes = Absent THEN <<>>
        ELSE [preparation_notes |-> preparation_notes])
    @@ (IF shopping_tips = Absent THEN <<>>
        ELSE [shopping_tips |-> shopping_tips])

FmInit ==
    /\ \E appetizers \in CourseTexts, desserts \in CourseTexts,
          number_of_guests \in {PyInt(0), PyInt(8)},
          preparation_notes \in OptionalTexts \cup {Absent},
          shopping_tips \in OptionalTexts \cup {Absent} :
          fm_args = FormatArgs(appetizers, desserts, number_of_guests,
                               preparation_notes, shopping_tips)
    /\ fm_ret = NotCalled

\* format_final_menu is called with the arguments
FmCall ==
    /\ fm_ret = NotCalled
    /\ fm_ret' = FormatFinalMenu(fm_args)
    /\ UNCHANGED fm_args
    /\ UNCHANGED <<orchVars, pxVars, storeVars, ctVars, asVars>>

FormatInit == OrchInit /\ PxIdle /\ StoreIdle /\ FmInit /\ CtIdle /\ AsIdle

FormatNext == FmCall

SpecFormat == FormatInit /\ [][FormatNext]_vars

(***************************************************************************)
(* Construction: config/client_factory.py and                              *)
(* ChristmasMenuOrchestrator.__init__ with _ensure_recipes_loaded.         *)
(***************************************************************************)
\* str.lower() on the provider names met here
Lower == "openai" :> "openai" @@ "ollama" :> "ollama" @@ "Ollama" :> "ollama"

ProviderInputs ==
    {None, PyStr(<<"openai">>), PyStr(<<"ollama">>), PyStr(<<"Ollama">>)}

ProviderSettings == {"openai", "ollama"}

\* create_client: the OpenAI client, or ValueError for the Ollama provider
CreateClient(provider, setting) ==
    LET name == IF Truthy(provider) THEN provider.v[1] ELSE setting
    IN IF Lower[name] = "ollama" THEN Raise("ValueError")
       ELSE [t |-> "client", provider |-> "openai"]

\* self.provider = provider or settings.LLM_PROVIDER
OrchestratorProvider(provider, setting) ==
    IF Truthy(provider) THEN provider ELSE PyStr(<<setting>>)

\* the agents the constructor creates, in order; each calls create_client
AgentAttributes ==
    <<"info_checker", "appetizer_agent", "main_dish_agent",
      "second_plate_agent", "dessert_agent", "recipe_researcher", "menu_creator">>

ConnectedAgents ==
    <<"appetizer_agent", "main_dish_agent", "second_plate_agent",
      "dessert_agent", "recipe_researcher">>

\* vector_store.count_recipes: a failure of the collection counts as 0
CountRecipes(collection, ok) ==
    IF ok THEN PyInt(Cardinality(collection)) ELSE PyInt(0)

CtInit ==
    /\ ct_pc = "idle"
    /\ ct_setting \in ProviderSettings
    /\ ct_args = None
    /\ ct_created = <<>>
    /\ ct_connected = <<>>
    /\ ct_exc = None

\* __init__ up to the creation of the vector store
CtorCreate(provider, initialize_db) ==
    /\ ct_pc = "idle"
    /\ ct_args' = [provider |-> provider, initialize_db |-> initialize_db,
                   store_before |-> store]
    /\ LET client == CreateClient(OrchestratorProvider(provider, ct_setting),
                                  ct_setting)
       IN IF client.t = "raise"
          THEN /\ ct_pc' = "raised"
               /\ ct_exc' = client
               /\ UNCHANGED <<ct_created, ct_connected>>
          ELSE /\ ct_created' = AgentAttributes \o <<"vector_store">>
               /\ ct_connected' = ConnectedAgents
               /\ ct_pc' = IF initialize_db THEN "ensure_recipes" ELSE "done"
               /\ UNCHANGED ct_exc
    /\ UNCHANGED ct_setting
    /\ UNCHANGED <<orchVars, pxVars, storeVars, fmVars, asVars>>

\* _ensure_recipes_loaded, called by __init__ when initialize_db is true
CtorEnsureRecipesLoaded(count_ok, add_ok) ==
    /\ ct_pc = "ensure_recipes"
    /\ LET count == CountRecipes(store, count_ok)
           load == LoadSampleRecipes(store, add_ok)
           counted == [op |-> "count_recipes", args |-> <<>>, ret |-> count]
       IN IF count = PyInt(0)
          THEN /\ store' = load.collection
               /\ st_calls' = <<counted, [op |-> "load_sample_recipes",
                                          args |-> <<>>, ret |-> load.ret]>>
               /\ ct_pc' = IF load.ret.t = "raise" THEN "raised" ELSE "done"
               /\ ct_exc' = IF load.ret.t = "raise" THEN load.ret ELSE ct_exc
          ELSE /\ st_calls' = <<counted>>
               /\ ct_pc' = "done"
               /\ UNCHANGED <<store, ct_exc>>
    /\ UNCHANGED <<ct_setting, ct_args, ct_created, ct_connected>>
    /\ UNCHANGED <<st_pc, st_ret, st_req>>
    /\ UNCHANGED <<orchVars, pxVars, fmVars, asVars>>

CtorInit == OrchInit /\ PxIdle /\ StoreInit /\ FmIdle /\ CtInit /\ AsIdle

CtorNext ==
    \/ \E provider \in ProviderInputs, initialize_db \in BOOLEAN :
          CtorCreate(provider, initialize_db)
    \/ \E count_ok \in BOOLEAN, add_ok \in BOOLEAN :
          CtorEnsureRecipesLoaded(count_ok, add_ok)

SpecCtor == CtorInit /\ [][CtorNext]_vars

(***************************************************************************)
(* Claims about the orchestrator pipelines (checked under Spec)            *)
(***************************************************************************)
CallNames == [i \in 1..Len(calls) |-> <<calls[i].agent, calls[i].op>>]

RunPipelineCalls ==
    <<<<"info_checker", "extract_preferences">>,
      <<"appetizer", "search">>, <<"main_dish", "search">>,
      <<"second_plate", "search">>, <<"dessert", "search">>,
      <<"menu_creator", "create_menu">>>>

OutputKeys ==
    {"info_checker", "appetizer", "main_dish", "second_plate", "dessert", "menu_creator"}

HasGuests(p) ==
    /\ p.t = "dict"
    /\ "number_of_guests" \in DOMAIN p.v
    /\ p.v["number_of_guests"] # None

SearchOrMenuCalled ==
    \E i \in 1..Len(calls) : calls[i].agent # "info_checker"

\* run takes its early return exactly on an incomplete extraction in interactive mode
TakesEarlyReturn == interactive /\ ~preferences_result.is_complete

\* C1: a call of run that does not take the early return has called
\* extract_preferences, then the four searches in the order appetizer, main dish,
\* second plate, dessert, then create_menu, each exactly once, by the time it ends.
C1_AllAgentsCalledInOrder ==
    (mode = "run" /\ Finished /\ ~TakesEarlyReturn) => CallNames = RunPipelineCalls

\* C2: every dictionary run returns has exactly the keys success, menu,
\* preferences, agent_outputs, error and provider; when success is True, error is
\* None, menu is the formatted_menu of the menu creator's result, preferences is
\* not None and agent_outputs has an entry for each of the six agents.
C2_RunResultShape ==
    (mode = "run" /\ pc = "returned") =>
        /\ DOMAIN result = {"success", "menu", "preferences", "agent_outputs",
                            "error", "provider"}
        /\ result.success =>
            /\ result.error = None
            /\ OutputKeys \subseteq DOMAIN result.agent_outputs
            /\ result.agent_outputs["menu_creator"] = calls[Len(calls)].ret
            /\ result.menu = calls[Len(calls)].ret.v["formatted_menu"]
            /\ result.preferences # None

C2_Witness ==
    /\ mode = "run"
    /\ pc = "returned"
    /\ result.success

\* C3: run(interactive=False) on an incomplete extraction ends by returning
\* success True with preferences that carry a number_of_guests, which is 6 when
\* the info checker supplied no preferences.
C3_IncompleteHandled ==
    (mode = "run" /\ ~interactive /\ Finished /\ ~preferences_result.is_complete) =>
        /\ pc = "returned"
        /\ result.success
        /\ HasGuests(result.preferences)
        /\ preferences_result.preferences = None =>
               result.preferences.v["number_of_guests"] = PyInt(6)

\* C4: run(interactive=True) on an incomplete extraction ends by returning success
\* False, menu None and error 'Missing required information', and has called
\* neither a search agent nor the menu creator.
C4_InteractiveIncompleteReturns ==
    (mode = "run" /\ interactive /\ Finished /\ ~preferences_result.is_complete) =>
        /\ pc = "returned"
        /\ ~result.success
        /\ result.menu = None
        /\ result.error = PyStr(<<"Missing required information">>)
        /\ ~SearchOrMenuCalled

EventTypes == {"status", "progress", "warning", "step", "complete"}

CompleteCount == Cardinality({i \in 1..Len(events) : events[i].type = "complete"})

\* C6: every event run_streaming yields has one of the five types, and the stream
\* it yields ends with its one complete event, whose menu is the text of the last
\* step the menu creator yielded (None when it yielded none).
C6_StreamEndsWithComplete ==
    mode = "run_streaming" =>
        /\ \A i \in 1..Len(events) : events[i].type \in EventTypes
        /\ Finished =>
            /\ CompleteCount = 1
            /\ events[Len(events)].type = "complete"
            /\ events[Len(events)].menu =
                   (IF steps = <<>> THEN None ELSE steps[Len(steps)].text)

\* the preferences the claims expect a pipeline to go on with
ExpectedPreferences ==
    IF ~preferences_result.is_complete /\ ~Truthy(preferences_result.preferences)
    THEN DefaultPreferences
    ELSE preferences_result.preferences

\* C7: run_with_native_agents calls extract_preferences once, then
\* create_menu_with_agents once with the preferences of that extraction (the
\* defaults when it is incomplete and supplied none), calls no search agent, and
\* returns success True with the formatted_menu of the menu creator's result.
C7_NativeReturnsMenu ==
    (mode = "run_with_native_agents" /\ Finished) =>
        /\ CallNames = <<<<"info_checker", "extract_preferences">>,
                         <<"menu_creator", "create_menu_with_agents">>>>
        /\ calls[2].args = <<ExpectedPreferences>>
        /\ pc = "returned"
        /\ result.success
        /\ result.menu = calls[2].ret.v["formatted_menu"]

MenuCreatorCalled ==
    /\ Len(calls) > 0
    /\ calls[Len(calls)].agent = "menu_creator"
    /\ calls[Len(calls)].op \in {"create_menu", "create_menu_with_agents"}

\* C9: a call of create_menu or create_menu_with_agents raises ValueError, without
\* running the LLM, exactly when the preferences have no number_of_guests (key
\* absent or None); otherwise, a number_of_guests of 0 included, the LLM is run
\* once and the call returns.
C9_GuestsMandatory ==
    MenuCreatorCalled =>
        LET p == calls[Len(calls)].args[1]
        IN /\ ~HasGuests(p) <=> (pc = "raised" /\ exc = Raise("ValueError"))
           /\ ~HasGuests(p) => menu_llm_runs = 0 /\ calls[Len(calls)].ret = Raise("ValueError")
           /\ HasGuests(p) => menu_llm_runs = 1 /\ pc = "returned"

C9_Witness ==
    /\ MenuCreatorCalled
    /\ ~HasGuests(calls[Len(calls)].args[1])
    /\ exc = Raise("ValueError")

(***************************************************************************)
(* Claims about _extract_preferences (checked under SpecPrefs)             *)
(***************************************************************************)
\* the key's value when it is a list, the empty list when the key is absent
ListOrAbsent(key) ==
    IF key \notin DOMAIN px_in.v THEN <<>> ELSE px_in.v[key].v

BothListsOrAbsent ==
    \A key \in {"allergies", "custom_allergies"} :
        key \in DOMAIN px_in.v => px_in.v[key].t = "list"

\* s is the sequence a followed by the sequence c
IsConcatenation(s, a, c) ==
    /\ Len(s) = Len(a) + Len(c)
    /\ \A i \in 1..Len(a) : s[i] = a[i]
    /\ \A j \in 1..Len(c) : s[Len(a) + j] = c[j]

\* C10: when allergies and custom_allergies are lists (or absent), the allergens
\* both functions return are the allergies followed by the custom_allergies: the
\* length is the sum, order and duplicates are kept, and the list is empty when
\* both are absent or empty. (The menu creator returns only when there is a
\* number_of_guests.)
C10_AllergensConcatenated ==
    BothListsOrAbsent =>
        /\ (px_recipe # NotCalled) =>
               /\ px_recipe.t = "dict"
               /\ px_recipe.v["allergens"].t = "list"
               /\ IsConcatenation(px_recipe.v["allergens"].v,
                                  ListOrAbsent("allergies"),
                                  ListOrAbsent("custom_allergies"))
        /\ (px_menu # NotCalled /\ HasGuests(px_in)) =>
               /\ px_menu.t = "dict"
               /\ px_menu.v["allergens"].t = "list"
               /\ IsConcatenation(px_menu.v["allergens"].v,
                                  ListOrAbsent("allergies"),
                                  ListOrAbsent("custom_allergies"))

\* both functions were applied to two lists that share a name
C10_Witness ==
    /\ px_menu # NotCalled
    /\ px_recipe # NotCalled
    /\ HasGuests(px_in)
    /\ BothListsOrAbsent
    /\ ListOrAbsent("allergies") = <<PyStr(<<"nuts">>), PyStr(<<"soy">>)>>
    /\ ListOrAbsent("custom_allergies") = <<PyStr(<<"nuts">>)>>
    /\ px_menu.v["allergens"] = px_recipe.v["allergens"]

(***************************************************************************)
(* Claims about the recipe store (checked under SpecStore)                 *)
(***************************************************************************)
SearchToolReturned == st_pc = "done" /\ st_req.op = "search_tool"

ReloadReturned == st_pc = "done" /\ st_req.op = "reload_recipes"

\* the recipes a tool's return value lists
ListedRecipes == IF st_ret.t = "listing" THEN st_ret.v ELSE {}

\* C5: every recipe a category search tool returns is of the tool's category
\* and carries the tag of every dietary flag the call set, whatever the store
\* holds and however the vector-store search call ends.
C5_ToolResultsMatchFilters ==
    SearchToolReturned =>
        \A recipe \in ListedRecipes :
            /\ recipe.category = st_req.category
            /\ \A f \in st_req.flags : InSeq(FlagTag[f], recipe.dietary_tags)

\* the same statement for the calls whose first vector-store search returned
C5_FilteredSearchMatches ==
    (SearchToolReturned /\ Len(st_calls) = 1) =>
        \A recipe \in ListedRecipes :
            /\ recipe.category = st_req.category
            /\ \A f \in st_req.flags : InSeq(FlagTag[f], recipe.dietary_tags)

ExpectedLoader ==
    IF st_req.json_file = None \/ st_req.json_file = PyStr(<<>>)
    THEN [op |-> "load_sample_recipes", args |-> <<>>]
    ELSE [op |-> "load_from_json_file", args |-> <<st_req.json_file>>]

\* C8: reload_recipes calls clear_all first and a loader only after it, the
\* loader is load_sample_recipes when json_file is None or empty and
\* load_from_json_file(json_file) otherwise, and what reload_recipes returns is
\* the count that loader reported.
C8_ReloadClearsThenLoads ==
    /\ (st_pc = "reload_load") =>
           /\ Len(st_calls) = 1
           /\ st_calls[1].op = "clear_all"
    /\ ReloadReturned =>
           /\ Len(st_calls) = 2
           /\ st_calls[1].op = "clear_all"
           /\ st_calls[2].op = ExpectedLoader.op
           /\ st_calls[2].args = ExpectedLoader.args
           /\ st_ret = st_calls[2].ret

\* a reload with an empty json_file returned the sample loader's count
C8_Witness ==
    /\ ReloadReturned
    /\ st_req.json_file = PyStr(<<>>)
    /\ st_calls[2].op = "load_sample_recipes"
    /\ st_ret = PyInt(Len(SampleRecipes))

(***************************************************************************)
(* Claims about create_menu and the recipe agents' search (SpecPrefs)      *)
(***************************************************************************)
\* the entries of the value of an allergy key: the elements of a list, a str
\* itself, nothing for None
AllergyEntries(key) ==
    IF key \notin DOMAIN px_in.v THEN {}
    ELSE IF px_in.v[key].t = "list"
         THEN {px_in.v[key].v[i] : i \in 1..Len(px_in.v[key].v)}
    ELSE IF px_in.v[key].t = "str" THEN {px_in.v[key]}
    ELSE {}

\* C11: for every preferences dictionary with a number_of_guests, create_menu
\* and create_menu_with_agents run the LLM once and return a dictionary whose
\* formatted_menu is the response text, whose number_of_guests is the
\* preference, and whose dietary_accommodations carry the has_vegans and
\* has_vegetarians flags (False when absent) and a list allergens_avoided that
\* contains every entry of allergies and custom_allergies.
C11_CreateMenuResult ==
    (px_create # NotCalled /\ HasGuests(px_in)) =>
        /\ px_create.llm_runs = 1
        /\ px_create.ret.t = "dict"
        /\ px_create.ret.v["formatted_menu"] = px_create.response_text
        /\ px_create.ret.v["number_of_guests"] = px_in.v["number_of_guests"]
        /\ LET d == px_create.ret.v["dietary_accommodations"].v
           IN /\ d["vegan_options"] = DictGet(px_in, "has_vegans", PyBool(FALSE))
              /\ d["vegetarian_options"] =
                     DictGet(px_in, "has_vegetarians", PyBool(FALSE))
              /\ d["allergens_avoided"].t = "list"
              /\ \A e \in AllergyEntries("allergies")
                          \cup AllergyEntries("custom_allergies") :
                     InSeq(e, d["allergens_avoided"].v)

(***************************************************************************)
(* Claims about format_final_menu (checked under SpecFormat)               *)
(***************************************************************************)
AllArgumentsGiven == DOMAIN fm_args = FormatParameters

\* the section of the header is in the menu, followed by the text
HasSection(menu, name, text) ==
    \E i \in 1..(Len(menu) - 1) :
        menu[i] = Header(name) /\ menu[i + 1] = MenuText(text)

HasHeader(menu, name) == \E i \in 1..Len(menu) : menu[i] = Header(name)

\* C12: format_final_menu emits the title, the guest count and the sections
\* APPETIZERS, MAIN DISHES, SECOND PLATES, DESSERTS in that order with the
\* texts given, ends with the Happy Christmas footer, and has the PREPARATION
\* TIMELINE section exactly when preparation_notes is non-empty and the
\* SHOPPING TIPS section exactly when shopping_tips is non-empty.
C12_MenuSections ==
    (fm_ret # NotCalled /\ AllArgumentsGiven) =>
        /\ fm_ret.t = "str"
        /\ LET menu == fm_ret.v
           IN /\ Len(menu) >= 11
              /\ menu[1] = TitleLine(fm_args.title)
              /\ menu[2] = GuestsLine(fm_args.number_of_guests)
              /\ menu[3] = Header("APPETIZERS")
              /\ menu[4] = MenuText(fm_args.appetizers)
              /\ menu[5] = Header("MAIN DISHES")
              /\ menu[6] = MenuText(fm_args.main_dishes)
              /\ menu[7] = Header("SECOND PLATES")
              /\ menu[8] = MenuText(fm_args.second_plates)
              /\ menu[9] = Header("DESSERTS")
              /\ menu[10] = MenuText(fm_args.desserts)
              /\ menu[Len(menu)] = Footer
              /\ HasHeader(menu, "PREPARATION TIMELINE")
                     <=> Truthy(fm_args.preparation_notes)
              /\ HasHeader(menu, "SHOPPING TIPS") <=> Truthy(fm_args.shopping_tips)
              /\ Truthy(fm_args.preparation_notes) =>
                     HasSection(menu, "PREPARATION TIMELINE",
                                fm_args.preparation_notes)
              /\ Truthy(fm_args.shopping_tips) =>
                     HasSection(menu, "SHOPPING TIPS", fm_args.shopping_tips)

\* a menu with shopping tips and without preparation notes was formatted
C12_Witness ==
    /\ fm_ret # NotCalled
    /\ AllArgumentsGiven
    /\ fm_args.preparation_notes = PyStr(<<>>)
    /\ fm_args.shopping_tips = PyStr(<<"Start early">>)
    /\ HasHeader(fm_ret.v, "SHOPPING TIPS")
    /\ ~HasHeader(fm_ret.v, "PREPARATION TIMELINE")

\* C13: a call that gives only the title, the four course texts and
\* number_of_guests succeeds and returns a menu string with neither a
\* PREPARATION TIMELINE nor a SHOPPING TIPS section.
C13_OptionalArguments ==
    (fm_ret # NotCalled
     /\ DOMAIN fm_args = FormatParameters \ {"preparation_notes", "shopping_tips"})
        => /\ fm_ret.t = "str"
           /\ ~HasHeader(fm_ret.v, "PREPARATION TIMELINE")
           /\ ~HasHeader(fm_ret.v, "SHOPPING TIPS")

(***************************************************************************)
(* Claims about the recipe agents' search (checked under SpecPrefs)        *)
(***************************************************************************)
\* C14: for every recipe agent and every preferences dictionary, search runs
\* the LLM once with tool_choice "required_first" and returns a dictionary
\* whose category is the agent's CATEGORY, whose raw_response is the response
\* text and whose preferences_used is what _extract_preferences gives for the
\* input, with the defaults False, False, True, "unknown", 0 and 0 for absent
\* keys; the input is not modified.
C14_SearchResult ==
    (px_search # NotCalled) =>
        /\ px_search.llm_runs = 1
        /\ px_search.tool_choice = PyStr(<<"required_first">>)
        /\ px_search.ret.t = "dict"
        /\ px_search.ret.v["category"] = PyStr(<<px_search.category>>)
        /\ px_search.ret.v["raw_response"] = px_search.response_text
        /\ LET used == px_search.ret.v["preferences_used"]
               Expected(key, default) ==
                   IF key \in DOMAIN px_in.v THEN px_in.v[key] ELSE default
           IN /\ used = RecipeExtractPreferences(px_in)
              /\ used.v["has_vegans"] = Expected("has_vegans", PyBool(FALSE))
              /\ used.v["has_vegetarians"] =
                     Expected("has_vegetarians", PyBool(FALSE))
              /\ used.v["prefer_traditional"] =
                     Expected("prefer_traditional", PyBool(TRUE))
              /\ used.v["number_of_guests"] =
                     Expected("number_of_guests", PyStr(<<"unknown">>))
              /\ used.v["vegan_count"] = Expected("vegan_count", PyInt(0))
              /\ used.v["vegetarian_count"] =
                     Expected("vegetarian_count", PyInt(0))

(***************************************************************************)
(* Claims about the info checker (checked under Spec)                      *)
(***************************************************************************)
\* C15: extract_preferences on a message that does not give the number of
\* guests returns is_complete False, "number_of_guests" in missing_info, at
\* least one question and a string raw_response, whatever tool calls the agent
\* run makes.  No branch of the code reads the message, so the runs of the model
\* are the runs on such a message.
C15_MissingGuestsReported ==
    (pc = "extracted") =>
        /\ ~preferences_result.is_complete
        /\ InSeq("number_of_guests", preferences_result.missing_info)
        /\ Len(preferences_result.questions) > 0
        /\ preferences_result.raw_response.t = "str"

(***************************************************************************)
(* Claims about construction (checked under SpecCtor)                      *)
(***************************************************************************)
ConstructorFinished == ct_pc \in {"done", "raised"}

\* the provider the clients are created for
EffectiveProvider ==
    IF Truthy(ct_args.provider) THEN Lower[ct_args.provider.v[1]]
    ELSE ct_setting

\* C16: the orchestrator and its agents can be constructed for the Ollama
\* provider (given as provider or as the LLM_PROVIDER setting) just as for the
\* OpenAI provider: the constructor ends without an exception and every agent
\* is created.
C16_OllamaSupported ==
    (ConstructorFinished /\ EffectiveProvider = "ollama") =>
        /\ ct_exc = None
        /\ \A i \in 1..Len(AgentAttributes) : InSeq(AgentAttributes[i], ct_created)

\* C19: the constructor creates the info checker, the four category agents,
\* the recipe researcher, the menu creator and the vector store, and connects
\* exactly the four category agents and the recipe researcher to the menu
\* creator; with initialize_db False it neither counts nor loads recipes and
\* leaves the store as it was.
C19_ConstructorCreatesAgents ==
    ConstructorFinished =>
        /\ \A i \in 1..Len(AgentAttributes) : InSeq(AgentAttributes[i], ct_created)
        /\ InSeq("vector_store", ct_created)
        /\ {ct_connected[i] : i \in 1..Len(ct_connected)} =
               {"appetizer_agent", "main_dish_agent", "second_plate_agent",
                "dessert_agent", "recipe_researcher"}
        /\ ~ct_args.initialize_db =>
               /\ st_calls = <<>>
               /\ store = ct_args.store_before

(***************************************************************************)
(* RecipeLoader.load_from_pdf                                              *)
(***************************************************************************)
\* the recipes extract_recipes may return: dictionaries with the fields of
\* ExtractedRecipe, which has no id
ExtractedRecipes ==
    { [name |-> "panettone", category |-> PyStr(<<"dessert">>),
       dietary_tags |-> <<"vegetarian">>, prep_time_minutes |-> None,
       is_christmas_traditional |-> PyBool(TRUE)],
      [name |-> "lasagne", category |-> PyStr(<<"main_dish">>),
       dietary_tags |-> <<>>, prep_time_minutes |-> PyInt(30),
       is_christmas_traditional |-> PyBool(FALSE)] }

ExtractedInputs == SeqsUpTo(ExtractedRecipes, MaxExtracted)

\* uuid4().hex[:12] of the i-th chunk
Uuid(i) == "u" \o ToString(i)

\* the chunk load_from_pdf builds for recipe_data
PdfChunk(recipe_data, uuid) ==
    [id |-> "pdf_" \o uuid \o "_" \o recipe_data.name,
     metadata |->
        [source |-> "pdf",
         category |-> recipe_data.category,
         is_christmas_traditional |-> recipe_data.is_christmas_traditional,
         prep_time_minutes |-> recipe_data.prep_time_minutes,
         dietary_tags |-> recipe_data.dietary_tags,
         recipe_name |-> recipe_data.name,
         recipe_json |-> [t |-> "json", v |-> recipe_data],
         is_vegan |-> PyBool(InSeq("vegan", recipe_data.dietary_tags)),
         is_vegetarian |-> PyBool(InSeq("vegetarian", recipe_data.dietary_tags)),
         is_gluten_free |-> PyBool(InSeq("gluten_free", recipe_data.dietary_tags)),
         is_dairy_free |-> PyBool(InSeq("dairy_free", recipe_data.dietary_tags)),
         is_nut_free |-> PyBool(InSeq("nut_free", recipe_data.dietary_tags))]]

\* self.vector_store.add_text_chunks(chunks): RecipeVectorStore defines
\* add_recipe and add_recipes and no add_text_chunks
AddTextChunks(collection, chunks) ==
    [collection |-> collection, ret |-> Raise("AttributeError")]

\* load_from_pdf: the collection after the call and what it returns or raises
LoadFromPdf(collection, exists, parse_ok, client, extracted_recipes) ==
    IF ~exists THEN [collection |-> collection, ret |-> Raise("FileNotFoundError")]
    ELSE IF ~parse_ok THEN [collection |-> collection, ret |-> Raise("ValueError")]
    ELSE IF client.t = "raise" THEN [collection |-> collection, ret |-> client]
    ELSE LET chunks == [i \in 1..Len(extracted_recipes) |->
                           PdfChunk(extracted_recipes[i], Uuid(i))]
             added == AddTextChunks(collection, chunks)
         IN IF chunks # <<>> /\ added.ret.t = "raise" THEN added
            ELSE [collection |-> IF chunks # <<>> THEN added.collection ELSE collection,
                  ret |-> PyInt(Len(chunks))]

\* one call of load_from_pdf: whether the file exists, whether the parser reads
\* it, the provider of the parsing agent, the recipes the agent extracts
LoadFromPdfCall(exists, parse_ok, provider, setting, extracted_recipes) ==
    /\ st_pc = "idle"
    /\ LET client == CreateClient(provider, setting)
           load == LoadFromPdf(store, exists, parse_ok, client, extracted_recipes)
       IN /\ store' = load.collection
          /\ st_ret' = load.ret
          /\ st_calls' = IF exists /\ parse_ok /\ client.t # "raise"
                            /\ extracted_recipes # <<>>
                         THEN <<[op |-> "add_text_chunks", args |-> <<>>,
                                 ret |-> load.ret]>>
                         ELSE <<>>
          /\ st_req' = [op |-> "load_from_pdf", exists |-> exists,
                        extracted |-> exists /\ parse_ok /\ client.t # "raise",
                        extracted_recipes |-> extracted_recipes,
                        collection |-> store]
    /\ st_pc' = "done"
    /\ UNCHANGED <<orchVars, pxVars, fmVars, ctVars, asVars>>

\* get_recipe_by_id: the recipe of the chunk stored under recipe_id, None when
\* there is none, when it has no recipe_json, or when retrieve or the validation
\* raises
GetRecipeById(collection, recipe_id, ok) ==
    LET results == {c \in collection : c.id = recipe_id}
        chunk == CHOOSE c \in results : TRUE
        recipe == ModelValidateJson(chunk.metadata.recipe_json)
    IN IF ~ok \/ results = {} THEN None
       ELSE IF "recipe_json" \notin DOMAIN chunk.metadata THEN None
       ELSE IF recipe.t = "raise" THEN None
       ELSE recipe

\* get_recipe_details: the text about the recipe, or that it was not found
GetRecipeDetails(recipe_id, recipe) ==
    IF recipe = None
    THEN PyStr(<<"Recipe with ID '", recipe_id, "' not found.">>)
    ELSE [t |-> "details", v |-> recipe]

\* the recipes handed to add_recipe and add_recipes: a sample recipe, the same
\* recipe with another preparation time, another sample recipe
AddInputs ==
    LET r == ModelValidate(SampleRecipes[1])
        changed == [r EXCEPT !.prep_time_minutes = PyInt(MaxPrepTime)]
        other == ModelValidate(SampleRecipes[2])
    IN {<<>>, <<r>>, <<changed>>, <<r, changed>>, <<changed, other>>}

RecipeIdInputs == {"it_app_001", "it_main_001", "it_none_001"}

\* add_recipe(recipes[1]) or add_recipes(recipes)
AddRecipesCall(op, recipes, ok) ==
    /\ st_pc = "idle"
    /\ op = "add_recipe" => Len(recipes) = 1
    /\ LET added == AddRecipes(store, recipes, ok)
       IN /\ store' = added.collection
          /\ st_ret' = added.ret
    /\ st_calls' = <<>>
    /\ st_req' = [op |-> op, recipes |-> recipes, collection |-> store]
    /\ st_pc' = "done"
    /\ UNCHANGED <<orchVars, pxVars, fmVars, ctVars, asVars>>

\* the get_recipe_details tool; ok is whether the lookup in the store works
GetRecipeDetailsCall(recipe_id, ok) ==
    /\ st_pc = "idle"
    /\ LET recipe == GetRecipeById(store, recipe_id, ok)
       IN /\ st_calls' = <<[op |-> "get_recipe_by_id", args |-> <<recipe_id>>,
                            ret |-> recipe]>>
          /\ st_ret' = GetRecipeDetails(recipe_id, recipe)
    /\ st_req' = [op |-> "get_recipe_details", recipe_id |-> recipe_id,
                  lookup_ok |-> ok]
    /\ st_pc' = "done"
    /\ UNCHANGED store
    /\ UNCHANGED <<orchVars, pxVars, fmVars, ctVars, asVars>>

\* the arguments of a direct call of a loader: a list of dictionaries, or a path
LoaderInputs ==
    {[op |-> "load_from_dict_list", recipes_data |-> d] :
        d \in {JsonFiles[f] : f \in DOMAIN JsonFiles} \cup {SampleRecipes}}
    \cup {[op |-> "load_from_json_file", file_path |-> f] :
             f \in {g \in JsonFileInputs : Truthy(g)}}

\* load_from_dict_list(recipes_data) or load_from_json_file(file_path)
LoaderCall(args, ok) ==
    /\ st_pc = "idle"
    /\ LET load == IF args.op = "load_from_dict_list"
                   THEN LoadFromDictList(store, args.recipes_data, ok)
                   ELSE LoadFromJsonFile(store, args.file_path, ok)
       IN /\ store' = load.collection
          /\ st_ret' = load.ret
          /\ st_calls' = load.calls
    /\ st_req' = [op |-> args.op, args |-> args, collection |-> store]
    /\ st_pc' = "done"
    /\ UNCHANGED <<orchVars, pxVars, fmVars, ctVars, asVars>>

StoreSpecInit == OrchInit /\ PxIdle /\ StoreInit /\ FmIdle /\ CtIdle /\ AsIdle

StoreNext ==
    \/ \E category \in CategoryValues, flags \in ToolFlagInputs,
          max_prep_time \in {None, PyInt(MaxPrepTime)},
          prefer_traditional \in BOOLEAN, n_results \in 1..MaxResults :
          SearchTool(category, flags, max_prep_time, prefer_traditional,
                     n_results)
    \/ \E json_file \in JsonFileInputs, ok \in BOOLEAN :
          ReloadClear(json_file, ok)
    \/ \E ok \in BOOLEAN : ReloadLoad(ok)
    \/ \E exists \in BOOLEAN, parse_ok \in BOOLEAN, provider \in ProviderInputs,
          setting \in ProviderSettings, extracted_recipes \in ExtractedInputs :
          LoadFromPdfCall(exists, parse_ok, provider, setting, extracted_recipes)
    \/ \E op \in {"add_recipe", "add_recipes"}, recipes \in AddInputs, ok \in BOOLEAN :
          AddRecipesCall(op, recipes, ok)
    \/ \E recipe_id \in RecipeIdInputs, ok \in BOOLEAN :
          GetRecipeDetailsCall(recipe_id, ok)
    \/ \E args \in LoaderInputs, ok \in BOOLEAN : LoaderCall(args, ok)
    \/ StoreReturn

SpecStore == StoreSpecInit /\ [][StoreNext]_vars

(***************************************************************************)
(* run_async, called after a run(interactive=False) has ended and given    *)
(* the answers that run got                                                *)
(***************************************************************************)
\* what a pipeline that has ended leaves behind
Outcome ==
    [t |-> "outcome", pc |-> pc, holder |-> holder,
     preferences_result |-> preferences_result, calls |-> calls,
     result |-> result, exc |-> exc]

\* run_async is entered: it builds its result, extract_preferences is called
\* and _run_extraction clears the result holder
AsyncStart ==
    /\ Finished
    /\ mode = "run"
    /\ ~interactive
    /\ runs < MaxRuns
    /\ runs' = runs + 1
    /\ as_prev' = Outcome
    /\ mode' = "run_async"
    /\ result' = InitialResult
    /\ events' = <<>>
    /\ calls' = <<>>
    /\ holder' = ClearedHolder(holder)
    /\ tool_calls' = 0
    /\ preferences_result' = None
    /\ preferences' = None
    /\ recipe_results' = <<>>
    /\ final_menu' = None
    /\ steps' = <<>>
    /\ menu_llm_runs' = 0
    /\ exc' = None
    /\ pc' = "info_run"
    /\ UNCHANGED <<interactive, memory_turns>>
    /\ UNCHANGED <<pxVars, storeVars, fmVars, ctVars>>

\* run_async, after extract_preferences returned: the choice of the preferences
AsyncAfterExtraction ==
    /\ mode = "run_async"
    /\ pc = "extracted"
    /\ LET r1 == [result EXCEPT !.agent_outputs = ("info_checker" :> preferences_result) @@ @]
           p == SelectPreferences(preferences_result)
       IN /\ preferences' = p
          /\ result' = [r1 EXCEPT !.preferences = p]
    /\ pc' = "search"
    /\ UNCHANGED <<mode, interactive, holder, memory_turns, preferences_result,
                   recipe_results, final_menu, events, calls, tool_calls, steps,
                   menu_llm_runs, exc, runs>>
    /\ UNCHANGED <<pxVars, storeVars, fmVars, ctVars, asVars>>

\* run_async: the search of the next category agent, whose LLM answers response_text
AsyncSearch(response_text) ==
    /\ mode = "run_async"
    /\ pc = "search"
    /\ LET i == Cardinality(DOMAIN recipe_results) + 1
           category == Categories[i]
           r == RecipeSearch(category, preferences, response_text)
       IN /\ calls' = Append(calls, Call(category, "search", <<preferences>>, r))
          /\ IF r.t = "raise"
             THEN /\ pc' = "raised"
                  /\ exc' = r
                  /\ UNCHANGED <<recipe_results, result>>
             ELSE /\ recipe_results' = (category :> r) @@ recipe_results
                  /\ result' = [result EXCEPT !.agent_outputs = (category :> r) @@ @]
                  /\ pc' = IF i = Len(Categories) THEN "create_menu" ELSE "search"
                  /\ exc' = exc
    /\ UNCHANGED <<mode, interactive, holder, memory_turns, preferences_result,
                   preferences, final_menu, events, tool_calls, steps,
                   menu_llm_runs, runs>>
    /\ UNCHANGED <<pxVars, storeVars, fmVars, ctVars, asVars>>

\* run_async: create_menu, whose LLM answers response_text, and the return
AsyncCreateMenu(response_text) ==
    /\ mode = "run_async"
    /\ pc = "create_menu"
    /\ LET suggestions == Suggestions(recipe_results)
           prompt == BuildMenuPrompt(preferences, suggestions)
           menu_result == MenuResult(preferences, response_text)
       IN /\ calls' = Append(calls, Call("menu_creator", "create_menu",
                                         <<preferences>> \o suggestions,
                                         IF prompt.t = "raise" THEN prompt ELSE menu_result))
          /\ IF prompt.t = "raise"
             THEN /\ pc' = "raised"
                  /\ exc' = prompt
                  /\ UNCHANGED <<result, menu_llm_runs>>
             ELSE /\ menu_llm_runs' = menu_llm_runs + 1
                  /\ result' = RunFinish(result, menu_result)
                  /\ pc' = "returned"
                  /\ exc' = exc
    /\ UNCHANGED <<mode, interactive, holder, memory_turns, preferences_result,
                   preferences, recipe_results, final_menu, events, tool_calls,
                   steps, runs>>
    /\ UNCHANGED <<pxVars, storeVars, fmVars, ctVars, asVars>>

\* the LLM answer a call of the earlier run got: the raw_response of a search,
\* the formatted_menu of create_menu
AnswerOf(call) ==
    IF call.op = "search" THEN call.ret.v["raw_response"]
    ELSE call.ret.v["formatted_menu"]

\* the answers the LLM may give in the next call of run_async: the one it gave
\* in the same call of the earlier run, any when that call had no answer
SameAnswers ==
    LET i == Len(calls) + 1
    IN IF i <= Len(as_prev.calls) /\ as_prev.calls[i].ret.t = "dict"
       THEN {AnswerOf(as_prev.calls[i])}
       ELSE Texts

\* the earlier run: run(interactive=False)
FirstRunStart == pc = "idle" /\ Start("run", FALSE)

FirstRunFinalize(is_complete, preferences_json, missing_info, questions) ==
    /\ mode = "run"
    /\ FinalizeExtractionCall(is_complete, preferences_json, missing_info, questions)

FirstRunExtraction(response_text) ==
    /\ mode = "run"
    /\ ExtractionReturns(response_text)

\* the info checker of run_async gives the answers it gave run: the same last
\* tool call, the same final text
SameFinalize(is_complete, preferences_json, missing_info, questions) ==
    /\ mode = "run_async"
    /\ tool_calls = 0
    /\ FinalizeExtractionCall(is_complete, preferences_json, missing_info, questions)
    /\ holder' = as_prev.holder

SameExtraction(response_text) ==
    /\ mode = "run_async"
    /\ holder = as_prev.holder
    /\ ExtractionReturns(response_text)
    /\ preferences_result' = as_prev.preferences_result

SameSearch(response_text) ==
    /\ mode = "run_async"
    /\ pc = "search"
    /\ response_text \in SameAnswers
    /\ AsyncSearch(response_text)

SameCreateMenu(response_text) ==
    /\ mode = "run_async"
    /\ pc = "create_menu"
    /\ response_text \in SameAnswers
    /\ AsyncCreateMenu(response_text)

AsyncInit == OrchInit /\ PxIdle /\ StoreIdle /\ FmIdle /\ CtIdle /\ AsIdle

AsyncNext ==
    \/ FirstRunStart
    \/ \E is_complete \in BOOLEAN, preferences_json \in PreferencesJsonInputs,
          a \in ListArgInputs :
          FirstRunFinalize(is_complete, preferences_json, a.missing_info, a.questions)
    \/ \E response_text \in InfoTexts : FirstRunExtraction(response_text)
    \/ RunAfterExtraction
    \/ \E response_text \in Texts : RunSearch(response_text)
    \/ \E response_text \in Texts : RunCreateMenu(response_text)
    \/ AsyncStart
    \/ \E is_complete \in BOOLEAN, preferences_json \in PreferencesJsonInputs,
          a \in ListArgInputs :
          SameFinalize(is_complete, preferences_json, a.missing_info, a.questions)
    \/ \E response_text \in InfoTexts : SameExtraction(response_text)
    \/ AsyncAfterExtraction
    \/ \E response_text \in Texts : SameSearch(response_text)
    \/ \E response_text \in Texts : SameCreateMenu(response_text)

SpecAsync == AsyncInit /\ [][AsyncNext]_vars

\* C17: for the same user request and the same answers of the info checker, the
\* four search agents and the menu creator, run_async makes the same agent calls
\* in the same order as run(interactive=False) and returns a dictionary equal
\* to the one run returns.
C17_RunAsyncEqualsRun ==
    (mode = "run_async" /\ Finished) =>
        /\ calls = as_prev.calls
        /\ pc = as_prev.pc
        /\ pc = "returned" => result = as_prev.result

\* C17 for the runs in which run returned
C17_EqualWhenRunReturns ==
    (mode = "run_async" /\ Finished /\ as_prev.pc = "returned") =>
        /\ calls = as_prev.calls
        /\ pc = "returned"
        /\ result = as_prev.result

C17_Witness ==
    mode = "run_async" /\ pc = "returned" /\ as_prev.pc = "returned"


\* a chunk of the collection from which search_recipes and get_recipe_by_id can
\* build the extracted recipe: both validate the chunk's recipe_json as a Recipe
Retrievable(collection, recipe_data) ==
    \E c \in collection :
        /\ "recipe_name" \in DOMAIN c.metadata
        /\ c.metadata.recipe_name = recipe_data.name
        /\ ModelValidateJson(c.metadata.recipe_json).t # "raise"

\* C18: load_from_pdf stores every recipe extracted from the PDF and returns the
\* number of recipes stored; when the file does not exist it raises
\* FileNotFoundError and leaves the store unchanged; every recipe it stored can
\* afterwards be returned by search_recipes and get_recipe_by_id.
C18_LoadFromPdf ==
    (st_pc = "done" /\ st_req.op = "load_from_pdf") =>
        /\ ~st_req.exists =>
              st_ret = Raise("FileNotFoundError") /\ store = st_req.collection
        /\ st_req.extracted =>
              /\ st_ret = PyInt(Len(st_req.extracted_recipes))
              /\ \A i \in 1..Len(st_req.extracted_recipes) :
                    Retrievable(store, st_req.extracted_recipes[i])

\* C18 for a file that does not exist, and for a PDF with no recipe
C18_NothingToStore ==
    (st_pc = "done" /\ st_req.op = "load_from_pdf") =>
        /\ ~st_req.exists =>
              st_ret = Raise("FileNotFoundError") /\ store = st_req.collection
        /\ (st_req.extracted /\ st_req.extracted_recipes = <<>>) =>
              st_ret = PyInt(0) /\ store = st_req.collection

\* the fields a question of ask_missing_info concerns
QuestionFields ==
    "How many guests are you expecting for Christmas dinner?" :> {"number_of_guests"}
    @@ "Are there any vegetarian or vegan guests?" :> {"has_vegetarians", "has_vegans"}
    @@ "Does anyone have food allergies I should be aware of?" :> {"allergies"}

AskMissingInfoCalls == {i \in 1..Len(calls) : calls[i].op = "ask_missing_info"}

\* C20: every question ask_missing_info returns concerns a field listed in
\* missing_fields, and with an empty missing_fields it returns
\* 'I have all the information I need!', for every current_preferences dictionary.
C20_OnlyMissingFieldsAsked ==
    \A i \in AskMissingInfoCalls :
        LET current_preferences == calls[i].args[1]
            missing_fields == calls[i].args[2]
            ret == calls[i].ret
        IN current_preferences.t = "dict" =>
              /\ ret.t = "str"
              /\ \A k \in 1..Len(ret.v) :
                    ret.v[k] \in DOMAIN QuestionFields =>
                        \E f \in QuestionFields[ret.v[k]] : InSeq(f, missing_fields)
              /\ missing_fields = <<>> =>
                    ret = PyStr(<<"I have all the information I need!">>)

\* C20 for the question about the number of guests alone
C20_GuestsAskedWhenMissing ==
    \A i \in AskMissingInfoCalls :
        calls[i].ret.t = "str" =>
            (InSeq("How many guests are you expecting for Christmas dinner?", calls[i].ret.v)
                <=> InSeq("number_of_guests", calls[i].args[2]))

(***************************************************************************)
(* InfoCheckerAgent alone: calls of extract_preferences and                *)
(* update_preferences on one agent, one after the other                    *)
(***************************************************************************)
InfoOps == {"extract_preferences", "update_preferences"}

\* extract_preferences or update_preferences is called and reaches the agent
\* run of _run_extraction; as_prev keeps what the call before it returned
InfoCall(op) ==
    /\ pc \in {"idle", "extracted"}
    /\ runs < MaxRuns
    /\ runs' = runs + 1
    /\ mode' = op
    /\ as_prev' = IF pc = "idle" THEN None
                  ELSE [t |-> "result", v |-> preferences_result]
    /\ holder' = ClearedHolder(holder)
    /\ tool_calls' = 0
    /\ preferences_result' = None
    /\ calls' = <<>>
    /\ pc' = "info_run"
    /\ UNCHANGED <<interactive, memory_turns, preferences, result, recipe_results,
                   final_menu, events, steps, menu_llm_runs, exc>>
    /\ UNCHANGED <<pxVars, storeVars, fmVars, ctVars>>

InfoInit == OrchInit /\ PxIdle /\ StoreIdle /\ FmIdle /\ CtIdle /\ AsIdle

InfoNext ==
    \/ \E op \in InfoOps : InfoCall(op)
    \/ \E is_complete \in BOOLEAN, preferences_json \in PreferencesJsonInputs,
          a \in ListArgInputs :
          FinalizeExtractionCall(is_complete, preferences_json, a.missing_info, a.questions)
    \/ \E response_text \in InfoTexts : ExtractionReturns(response_text)

SpecInfo == InfoInit /\ [][InfoNext]_vars

\* C21: the result of an extract_preferences or update_preferences call comes
\* only from the finalize_extraction calls of its own agent run.  The holder is
\* None until the run's first finalize_extraction call; a run without such a call
\* returns the fallback (is_complete False, preferences None, empty missing_info,
\* questions and summary), whatever an earlier call returned; a run with such
\* calls returns what the last of them stored.
C21_ResultFromSameRun ==
    /\ (pc = "info_run" /\ tool_calls = 0) => holder = None
    /\ (pc = "extracted" /\ tool_calls = 0) =>
          /\ preferences_result.is_complete = FALSE
          /\ preferences_result.preferences = None
          /\ preferences_result.missing_info = <<>>
          /\ preferences_result.questions = <<>>
          /\ preferences_result.summary = PyStr(<<>>)
    /\ (pc = "extracted" /\ tool_calls > 0) =>
          /\ holder # None
          /\ \A f \in DOMAIN holder : preferences_result[f] = holder[f]

\* a second call without a finalize_extraction call, after a call whose result
\* came from finalize_extraction, has returned
C21_Witness ==
    /\ pc = "extracted"
    /\ tool_calls = 0
    /\ as_prev # None
    /\ as_prev.v.is_complete
    /\ as_prev.v.preferences # None
    /\ ~preferences_result.is_complete

\* _ensure_recipes_loaded has returned
EnsureReturned ==
    /\ ct_pc = "done"
    /\ ct_args.initialize_db

SamplesLoaded == \E i \in 1..Len(st_calls) : st_calls[i].op = "load_sample_recipes"

\* C22: after _ensure_recipes_loaded returns the store holds at least one
\* recipe; the sample recipes are loaded only when the store held no recipe; on
\* a store that already holds recipes the call adds nothing.
C22_EnsureRecipesLoaded ==
    EnsureReturned =>
        /\ store # {}
        /\ SamplesLoaded => ct_args.store_before = {}
        /\ ct_args.store_before # {} => store = ct_args.store_before

\* C22 for the calls in which count_recipes returns the number of stored recipes
C22_WhenCountIsRight ==
    (EnsureReturned /\ st_calls[1].ret = PyInt(Cardinality(ct_args.store_before))) =>
        /\ store # {}
        /\ SamplesLoaded => ct_args.store_before = {}
        /\ ct_args.store_before # {} => store = ct_args.store_before

(***************************************************************************)
(* ChristmasMenuOrchestrator.run_async_streaming                           *)
(***************************************************************************)
\* run_async_streaming is entered: the first two events, extract_preferences is
\* called and _run_extraction clears the result holder
AsyncStreamStart ==
    /\ pc = "idle" \/ Finished
    /\ runs < MaxRuns
    /\ runs' = runs + 1
    /\ mode' = "run_async_streaming"
    /\ interactive' = FALSE
    /\ result' = None
    /\ events' = <<StatusEvent("Starting Christmas Menu Planner (Async)"),
                   StatusEvent("Analyzing your requirements")>>
    /\ calls' = <<>>
    /\ holder' = ClearedHolder(holder)
    /\ tool_calls' = 0
    /\ preferences_result' = None
    /\ preferences' = None
    /\ recipe_results' = <<>>
    /\ final_menu' = None
    /\ steps' = <<>>
    /\ menu_llm_runs' = 0
    /\ exc' = None
    /\ pc' = "info_run"
    /\ UNCHANGED memory_turns
    /\ UNCHANGED <<pxVars, storeVars, fmVars, ctVars, asVars>>

\* run_async_streaming, after extract_preferences returned: the choice of the
\* preferences and the progress event of the info checker
AsyncStreamAfterExtraction ==
    /\ mode = "run_async_streaming"
    /\ pc = "extracted"
    /\ preferences' = SelectPreferences(preferences_result)
    /\ events' = Append(events, [type |-> "progress", step |-> "info_checker",
                                 message |-> "Preferences extracted",
                                 data |-> SelectPreferences(preferences_result)])
    /\ pc' = "search"
    /\ UNCHANGED <<mode, interactive, holder, memory_turns, preferences_result,
                   result, recipe_results, final_menu, calls, tool_calls, steps,
                   menu_llm_runs, exc, runs>>
    /\ UNCHANGED <<pxVars, storeVars, fmVars, ctVars, asVars>>

\* run_async_streaming: the status event, the search of the next category agent
\* and its progress event
AsyncStreamSearch(response_text) ==
    /\ mode = "run_async_streaming"
    /\ pc = "search"
    /\ LET i == Cardinality(DOMAIN recipe_results) + 1
           category == Categories[i]
           r == RecipeSearch(category, preferences, response_text)
           announced == Append(events, StatusEvent(category))
       IN /\ calls' = Append(calls, Call(category, "search", <<preferences>>, r))
          /\ IF r.t = "raise"
             THEN /\ pc' = "raised"
                  /\ exc' = r
                  /\ events' = announced
                  /\ UNCHANGED recipe_results
             ELSE /\ recipe_results' = (category :> r) @@ recipe_results
                  /\ events' = Append(announced, [type |-> "progress",
                                                  step |-> category, data |-> r])
                  /\ pc' = IF i = Len(Categories) THEN "create_menu" ELSE "search"
                  /\ exc' = exc
    /\ UNCHANGED <<mode, interactive, holder, memory_turns, preferences_result,
                   preferences, result, final_menu, tool_calls, steps,
                   menu_llm_runs, runs>>
    /\ UNCHANGED <<pxVars, storeVars, fmVars, ctVars, asVars>>

\* run_async_streaming: the status event and the start of the menu creator's
\* a_stream_invoke, whose prompt holds the number of guests
AsyncStreamInvoke ==
    /\ mode = "run_async_streaming"
    /\ pc = "create_menu"
    /\ calls' = Append(calls,
                       Call("menu_creator", "a_stream_invoke",
                            <<[t |-> "Create Christmas menu for {} guests",
                               v |-> DictGet(preferences, "number_of_guests", PyInt(6))]>>,
                            None))
    /\ events' = Append(events, StatusEvent("Creating menu"))
    /\ menu_llm_runs' = menu_llm_runs + 1
    /\ pc' = "menu_stream"
    /\ UNCHANGED <<mode, interactive, holder, memory_turns, preferences_result,
                   preferences, result, recipe_results, final_menu, tool_calls,
                   steps, exc, runs>>
    /\ UNCHANGED <<pxVars, storeVars, fmVars, ctVars, asVars>>

\* run_async_streaming: the menu creator yields a step
AsyncStreamStep(step) ==
    /\ mode = "run_async_streaming"
    /\ pc = "menu_stream"
    /\ Len(steps) < MaxSteps
    /\ steps' = Append(steps, step)
    /\ events' = Append(events, [type |-> "step", message |-> step.text])
    /\ final_menu' = step.text
    /\ UNCHANGED <<mode, interactive, pc, holder, memory_turns, preferences_result,
                   preferences, result, recipe_results, calls, tool_calls,
                   menu_llm_runs, exc, runs>>
    /\ UNCHANGED <<pxVars, storeVars, fmVars, ctVars, asVars>>

\* run_async_streaming: the stream ends and the complete event is yielded
AsyncStreamComplete ==
    /\ mode = "run_async_streaming"
    /\ pc = "menu_stream"
    /\ events' = Append(events, [type |-> "complete", menu |-> final_menu,
                                 preferences |-> preferences])
    /\ pc' = "returned"
    /\ UNCHANGED <<mode, interactive, holder, memory_turns, preferences_result,
                   preferences, result, recipe_results, final_menu, calls,
                   tool_calls, steps, menu_llm_runs, exc, runs>>
    /\ UNCHANGED <<pxVars, storeVars, fmVars, ctVars, asVars>>

AsyncStreamNext ==
    \/ AsyncStreamStart
    \/ \E is_complete \in BOOLEAN, preferences_json \in PreferencesJsonInputs,
          a \in ListArgInputs :
          FinalizeExtractionCall(is_complete, preferences_json, a.missing_info, a.questions)
    \/ \E response_text \in InfoTexts : ExtractionReturns(response_text)
    \/ AsyncStreamAfterExtraction
    \/ \E response_text \in Texts : AsyncStreamSearch(response_text)
    \/ AsyncStreamInvoke
    \/ \E step \in StepInputs : AsyncStreamStep(step)
    \/ AsyncStreamComplete

SpecAsyncStream == AsyncInit /\ [][AsyncStreamNext]_vars

\* the pipeline variants that run the four category searches
SearchingModes == {"run", "run_streaming", "run_async", "run_async_streaming"}

\* the call of the search agent of a category in this run
SearchCallOf(category) ==
    {j \in 1..Len(calls) : calls[j].agent = category /\ calls[j].op = "search"}

\* call i of the menu creator got the raw_response of each of the four search
\* results of the run
GivenSearchResults(i) ==
    /\ Len(calls[i].args) = Len(Categories) + 1
    /\ \A c \in 1..Len(Categories) :
          \E j \in SearchCallOf(Categories[c]) :
              /\ j < i
              /\ calls[j].ret.t = "dict"
              /\ calls[i].args[c + 1] = calls[j].ret.v["raw_response"]

\* C23: in run, run_streaming, run_async and run_async_streaming the menu creator
\* is invoked with the raw_response of each of the four search results of the
\* same run, and a run that went through the four searches and ended normally
\* has invoked it.
C23_MenuFromSearchResults ==
    mode \in SearchingModes =>
        /\ \A i \in 1..Len(calls) :
              calls[i].agent = "menu_creator" => GivenSearchResults(i)
        /\ (pc = "returned" /\ \A c \in 1..Len(Categories) : SearchCallOf(Categories[c]) # {}) =>
              \E i \in 1..Len(calls) : calls[i].agent = "menu_creator"

\* a run other than run_async_streaming has invoked the menu creator
C23_InvokedElsewhere ==
    /\ mode \in SearchingModes \ {"run_async_streaming"}
    /\ \E i \in 1..Len(calls) : calls[i].agent = "menu_creator" /\ calls[i].ret # None
    /\ pc = "returned"

\* the chunks of the valid recipes of the list that the reload loaded
JustLoaded ==
    LET recipes_data == IF ExpectedLoader.op = "load_sample_recipes" THEN SampleRecipes
                        ELSE JsonFiles[PathName(st_req.json_file)]
    IN {CreateChunk(ModelValidate(recipes_data[i])) :
           i \in {k \in 1..Len(recipes_data) : ModelValidate(recipes_data[k]).t # "raise"}}

\* C24: after reload_recipes returns n, the store holds exactly the recipes that
\* were just loaded and nothing from before the reload, and get_recipe_count()
\* equals n, for every prior store content and every input recipe list.
C24_ReloadReplacesStore ==
    (ReloadReturned /\ st_ret.t = "int") =>
        /\ store = JustLoaded
        /\ \A count_ok \in BOOLEAN : CountRecipes(store, count_ok) = st_ret

\* what remains of C24: the loaded recipes are in the store, and the rest of
\* the store is from before the reload
C24_LoadedAreStored ==
    (ReloadReturned /\ st_ret.t = "int") =>
        /\ JustLoaded \subseteq store
        /\ store \subseteq JustLoaded \cup st_req.collection

AddReturned ==
    /\ st_pc = "done"
    /\ st_req.op \in {"add_recipe", "add_recipes"}
    /\ st_ret = None

FlagValues == {PyBool(TRUE), PyBool(FALSE), None}

PrepTimeInputs == {None, PyInt(0), PyInt(MaxPrepTime)}

\* one call of _build_filter
BuildFilterCall(category, diet, max_prep_time, prefer_traditional) ==
    /\ st_pc = "idle"
    /\ st_req' = [op |-> "_build_filter", category |-> category, diet |-> diet,
                  max_prep_time |-> max_prep_time,
                  prefer_traditional |-> prefer_traditional]
    /\ st_ret' = BuildFilter(category, diet, max_prep_time, PyBool(prefer_traditional))
    /\ st_pc' = "done"
    /\ UNCHANGED <<store, st_calls>>
    /\ UNCHANGED <<orchVars, pxVars, fmVars, ctVars, asVars>>

FilterInit == OrchInit /\ PxIdle /\ StoreIdle /\ FmIdle /\ CtIdle /\ AsIdle

FilterNext ==
    \/ \E category \in CategoryValues \cup {None}, diet \in [FlagNames -> FlagValues],
          max_prep_time \in PrepTimeInputs, prefer_traditional \in BOOLEAN :
          BuildFilterCall(category, diet, max_prep_time, prefer_traditional)
    \/ StoreReturn

SpecFilter == FilterInit /\ [][FilterNext]_vars

\* the conditions the arguments of the call ask for
RequestedConditions ==
    (IF st_req.category # None
     THEN {[key |-> "category", match |-> [value |-> st_req.category]]} ELSE {})
    \cup {[key |-> f, match |-> [value |-> PyBool(TRUE)]] :
             f \in {g \in FlagNames : st_req.diet[g] = PyBool(TRUE)}}
    \cup (IF st_req.max_prep_time # None
          THEN {[key |-> "prep_time_minutes", range |-> [lte |-> st_req.max_prep_time]]}
          ELSE {})
    \cup (IF st_req.prefer_traditional
          THEN {[key |-> "is_christmas_traditional", match |-> [value |-> PyBool(TRUE)]]}
          ELSE {})

\* C26: _build_filter returns None when no condition is requested, the condition
\* itself when exactly one is, and {'must': [all conditions]} otherwise; there is
\* a condition for the category when one is given, for a dietary flag only when
\* it is True (False and None add nothing), for max_prep_time when it is not
\* None, and for is_christmas_traditional when prefer_traditional is true.
C26_BuildFilter ==
    (st_pc = "done" /\ st_req.op = "_build_filter") =>
        /\ RequestedConditions = {} => st_ret = None
        /\ Cardinality(RequestedConditions) = 1 => st_ret \in RequestedConditions
        /\ Cardinality(RequestedConditions) > 1 =>
              /\ DOMAIN st_ret = {"must"}
              /\ Len(st_ret.must) = Cardinality(RequestedConditions)
              /\ {st_ret.must[i] : i \in 1..Len(st_ret.must)} = RequestedConditions

\* a call with max_prep_time 0, a flag that is False and a flag that is True
\* has returned a 'must' filter
C26_Witness ==
    /\ st_pc = "done"
    /\ st_req.op = "_build_filter"
    /\ st_req.max_prep_time = PyInt(0)
    /\ \E f \in FlagNames : st_req.diet[f] = PyBool(FALSE)
    /\ \E f \in FlagNames : st_req.diet[f] = PyBool(TRUE)
    /\ st_ret # None
    /\ "must" \in DOMAIN st_ret

LoaderReturned ==
    /\ st_pc = "done"
    /\ st_req.op \in {"load_from_dict_list", "load_from_json_file"}

FileMissing ==
    /\ st_req.op = "load_from_json_file"
    /\ PathName(st_req.args.file_path) \notin DOMAIN JsonFiles

\* the entries of the loader's input, and those that pass Recipe.model_validate,
\* in input order
LoaderEntries ==
    IF st_req.op = "load_from_dict_list" THEN st_req.args.recipes_data
    ELSE JsonFiles[PathName(st_req.args.file_path)]

ValidEntries ==
    LET validated == [i \in 1..Len(LoaderEntries) |-> ModelValidate(LoaderEntries[i])]
        RECURSIVE Keep(_)
        Keep(i) == IF i > Len(validated) THEN <<>>
                   ELSE IF validated[i].t = "raise" THEN Keep(i + 1)
                   ELSE <<validated[i]>> \o Keep(i + 1)
    IN Keep(1)

\* C27: load_from_dict_list and load_from_json_file skip every entry that fails
\* the validation and load the others: the count returned is the number of valid
\* entries, exactly those recipes are passed to the store, in input order, the
\* store is not called when none is valid, and load_from_json_file raises
\* FileNotFoundError without touching the store when the file does not exist.
C27_LoadersSkipInvalid ==
    LoaderReturned =>
        IF FileMissing
        THEN /\ st_ret = Raise("FileNotFoundError")
             /\ st_calls = <<>>
             /\ store = st_req.collection
        ELSE /\ st_ret.t = "int" => st_ret = PyInt(Len(ValidEntries))
             /\ ValidEntries = <<>> =>
                   /\ st_calls = <<>>
                   /\ st_ret = PyInt(0)
                   /\ store = st_req.collection
             /\ ValidEntries # <<>> =>
                   /\ Len(st_calls) = 1
                   /\ st_calls[1].op = "add_recipes"
                   /\ st_calls[1].args = <<ValidEntries>>
                   /\ st_ret.t = "int" =>
                         \A i \in 1..Len(ValidEntries) :
                             \E c \in store : c.id = ValidEntries[i].id

\* a loader has returned 1 for a list of three entries, two of them invalid
C27_Witness ==
    /\ LoaderReturned
    /\ ~FileMissing
    /\ Len(LoaderEntries) = 3
    /\ Len(ValidEntries) = 1
    /\ st_ret = PyInt(1)
    /\ Len(st_calls) = 1

====
